---- MODULE Spec2Model ----
(***************************************************************************)
(* Open-data retrieval and preparation pipeline of the Samarth prototype:  *)
(* the paginated, retrying resource client (DataGovClient), the format     *)
(* adapters with their parquet cache (JSONAdapter, CSVAdapter) and the     *)
(* per-dataset fetch step of the orchestrator (SamarthDirectApp).          *)
(*                                                                         *)
(* Text is modelled as a sequence of atoms (one atom per character, or per *)
(* run of characters that no operation of the program looks inside), so    *)
(* that splitting, stripping, case folding and replacement are computed    *)
(* the way the code computes them.                                         *)
(***************************************************************************)
EXTENDS Integers, Sequences, FiniteSets, TLC

\* ------------------------------------------------------------------ bounds
\* Largest number of records a remote resource holds.
MaxRemote == 5
\* Largest page size a direct caller of fetch_all_pages passes.
MaxPageSize == 2
\* Stand-in for the orchestrator's limit_per_page=1000 (app_direct.py:166).
AppLimitPerPage == 2
\* Largest number of records in a payload handed directly to read_and_cache.
MaxRecords == 2
\* Largest resource when the adapters are also used directly.
MaxApiRemote == 2

\* stop_after_attempt(3) of the retry decorator.
MaxAttempts == 3

VARIABLES
    remote,     \* rid -> the records the remote API holds for the resource
    cache,      \* rid -> the parquet artifact of the cache directory, or NoFile
    pc,         \* position of the single caller: "idle" or "fetch_resource"
    call,       \* locals of the running _fetch_raw_data / fetch_all_pages call
    hist,       \* what the running call has requested so far (observation)
    ret,        \* outcome of the last completed operation
    completed,  \* rids for which some fetch_all_pages returned normally (observation)
    writes,     \* rid -> number of to_parquet writes of the artifact (observation)
    lastHit,    \* rid -> the table the last cache hit returned, or NoFile (observation)
    tin,        \* payload handed to the adapter under the adapter specification
    tout,       \* what the adapter made of it
    catalog,    \* rows of the dataset_catalog table, in table order
    dpc,        \* position of the running DatasetDiscovery call, or "idle"
    dloc,       \* locals of the running DatasetDiscovery call
    dlog,       \* what the running or last call did (observation)
    dret,       \* outcome of the last completed DatasetDiscovery call
    apc,        \* position of the running answer_question call, or "idle"
    aloc,       \* locals of the running answer_question call
    alog,       \* what the running or last answer_question call did (observation)
    aret,       \* outcome of the last completed answer_question call
    pin,        \* dataset, answer and limits handed to the table preparer
    pout,       \* what the table preparer made of them
    callers,    \* caller -> its read_and_cache call on the shared cache directory
    writers     \* callers in the order their to_parquet writes ended (observation)

\* The variables of the discovery side.
dvars == <<catalog, dpc, dloc, dlog, dret>>

\* The variables of answer_question.
avars == <<apc, aloc, alog, aret>>

\* The variables of the table preparer.
pvars == <<pin, pout>>

\* The variables of the concurrent callers of read_and_cache.
cvars == <<callers, writers>>

vars == <<remote, cache, pc, call, hist, ret, completed, writes, lastHit, tin, tout,
          catalog, dpc, dloc, dlog, dret, apc, aloc, alog, aret, pin, pout,
          callers, writers>>

\* -------------------------------------------------------------------- text
TAB == "\t"
US == "_"

Min(a, b) == IF a < b THEN a ELSE b
Max(a, b) == IF a > b THEN a ELSE b

\* str.split(sep) with a one-character separator: always at least one fragment.
Split(s, sep) ==
    LET RECURSIVE F(_, _, _)
        F(i, cur, acc) ==
            IF i > Len(s) THEN Append(acc, cur)
            ELSE IF s[i] = sep THEN F(i + 1, <<>>, Append(acc, cur))
            ELSE F(i + 1, Append(cur, s[i]), acc)
    IN F(1, <<>>, <<>>)

IsSpace(ch) == ch \in {" ", TAB}

\* str.strip(): leading and trailing whitespace removed.
Strip(s) ==
    LET idx == {i \in 1..Len(s) : ~IsSpace(s[i])}
    IN IF idx = {} THEN <<>>
       ELSE LET lo == CHOOSE i \in idx : \A j \in idx : i <= j
                hi == CHOOSE i \in idx : \A j \in idx : i >= j
            IN SubSeq(s, lo, hi)

LowerAtom(ch) ==
    CASE ch = "A" -> "a"
      [] ch = "B" -> "b"
      [] ch = "ID" -> "id"
      [] ch = "Rainfall" -> "rainfall"
      [] ch = "Climate" -> "climate"
      [] OTHER -> ch

\* str.lower()
Lower(s) == [i \in 1..Len(s) |-> LowerAtom(s[i])]

\* str.replace(old, new) for one-character old and new.
Replace(s, old, new) == [i \in 1..Len(s) |-> IF s[i] = old THEN new ELSE s[i]]

\* str(i) for a non-negative integer.
IntToStr(i) ==
    LET Digit(d) == <<"0", "1", "2", "3", "4", "5", "6", "7", "8", "9">>[d + 1]
        RECURSIVE F(_)
        F(n) == IF n < 10 THEN <<Digit(n)>> ELSE Append(F(n \div 10), Digit(n % 10))
    IN F(i)

\* f'col_{i}'
ColPlaceholder(i) == <<"col", US>> \o IntToStr(i)

SOURCE_ID == <<"source", US, "id">>

\* ------------------------------------------------------------------- cells
Str(s) == [k |-> "str", s |-> s, n |-> 0]
Num(n) == [k |-> "num", s |-> <<>>, n |-> n]
None == [k |-> "none", s |-> <<>>, n |-> 0]
NaN == [k |-> "nan", s |-> <<>>, n |-> 0]

IsNull(c) == c.k \in {"none", "nan"}
IsStr(c) == c.k = "str"
HasTab(s) == \E i \in 1..Len(s) : s[i] = TAB

\* ------------------------------------------------------------------ tables
\* A DataFrame: column labels in order, one value sequence per column.
Frame(columns, values, nrows) == [columns |-> columns, values |-> values, nrows |-> nrows]
EmptyFrame == Frame(<<>>, <<>>, 0)

Ok(df) == [ok |-> TRUE, df |-> df]
Raised == [ok |-> FALSE, df |-> EmptyFrame]

NoDuplicates(seq) == \A i, j \in 1..Len(seq) : seq[i] = seq[j] => i = j
Count(seq, x) == Cardinality({i \in 1..Len(seq) : seq[i] = x})

\* Keys of a record (an ordered dict: a sequence of <<key, cell>> pairs).
RecordKeys(rec) == [i \in 1..Len(rec) |-> rec[i][1]]
HasKey(rec, key) == \E i \in 1..Len(rec) : rec[i][1] = key
Lookup(rec, key) == rec[CHOOSE i \in 1..Len(rec) : rec[i][1] = key][2]

\* Column labels of pd.DataFrame(list of dicts): keys in order of first appearance.
FirstAppearance(data) ==
    LET RECURSIVE Keys(_, _, _)
        Keys(r, i, acc) ==
            IF r > Len(data) THEN acc
            ELSE IF i > Len(data[r]) THEN Keys(r + 1, 1, acc)
            ELSE IF \E j \in 1..Len(acc) : acc[j] = data[r][i][1]
                 THEN Keys(r, i + 1, acc)
                 ELSE Keys(r, i + 1, Append(acc, data[r][i][1]))
    IN Keys(1, 1, <<>>)

\* dtype inference of one column: a column without text and with a number is
\* numeric and holds its missing values as NaN; anything else is object.
IsObject(col) == (\E i \in 1..Len(col) : IsStr(col[i])) \/ (\A i \in 1..Len(col) : ~(col[i].k = "num"))
Infer(col) ==
    IF IsObject(col) THEN col
    ELSE [i \in 1..Len(col) |-> IF IsNull(col[i]) THEN NaN ELSE col[i]]

\* pd.DataFrame(data): a key missing from a record is NaN in its row.
DataFrame(data) ==
    LET keys == FirstAppearance(data)
        Column(key) == [r \in 1..Len(data) |->
                          IF HasKey(data[r], key) THEN Lookup(data[r], key) ELSE NaN]
    IN Frame(keys, [c \in 1..Len(keys) |-> Infer(Column(keys[c]))], Len(data))

\* FormatAdapter._normalize_columns
NormalizeName(name) == Replace(Replace(Lower(Strip(name)), " ", US), "-", US)
NormalizeColumns(df) ==
    Frame([c \in 1..Len(df.columns) |-> NormalizeName(df.columns[c])], df.values, df.nrows)

\* ------------------------------------------- delimiter-packed expansion
\* df[col].dropna().iloc[0], or None when every value is null.
FirstNonNull(col) ==
    LET idx == {i \in 1..Len(col) : ~IsNull(col[i])}
    IN IF idx = {} THEN None ELSE col[CHOOSE i \in idx : \A j \in idx : i <= j]

\* sample_val and isinstance(sample_val, str) and '\t' in sample_val
IsPacked(col) ==
    LET sample_val == FirstNonNull(col)
    IN IsStr(sample_val) /\ Len(sample_val.s) > 0 /\ HasTab(sample_val.s)

\* One row of df[col].str.split('\t', expand=True) before padding: the fields
\* of a text value; a single NaN for a null or non-text value.
SplitRow(c) == IF IsStr(c) THEN [j \in 1..Len(Split(c.s, TAB)) |-> Str(Split(c.s, TAB)[j])] ELSE <<NaN>>

\* split_data.shape[1]: the longest row.
SplitWidth(col) ==
    LET lens == {Len(SplitRow(col[r])) : r \in 1..Len(col)}
    IN CHOOSE w \in lens : \A v \in lens : v <= w

\* Cell (row r, field j) of split_data: NaN rows are propagated to the full
\* width, short rows are padded with None.
SplitCell(c, j) ==
    IF ~IsStr(c) THEN NaN
    ELSE IF j <= Len(SplitRow(c)) THEN SplitRow(c)[j] ELSE None

\* The loop over potential_col_names (format_adapters.py:113-124): blank
\* fragments become col_<i>, a name already seen gets _<count> appended.
CleanedNames(potential_col_names) ==
    LET RECURSIVE Loop(_, _, _)
        Loop(i, seen, cleaned) ==
            IF i > Len(potential_col_names) THEN cleaned
            ELSE LET raw == potential_col_names[i]
                     name == IF raw = <<>> \/ raw = <<" ">> THEN ColPlaceholder(i - 1) ELSE raw
                 IN IF name \in DOMAIN seen
                    THEN LET n == seen[name] + 1
                         IN Loop(i + 1, [seen EXCEPT ![name] = n],
                                 Append(cleaned, name \o <<US>> \o IntToStr(n)))
                    ELSE Loop(i + 1, [x \in DOMAIN seen \cup {name} |->
                                        IF x = name THEN 0 ELSE seen[x]],
                              Append(cleaned, name))
    IN Loop(1, <<>>, <<>>)

\* Mutant: the else branch numbers every column.
NumberedNamesPositional(potential_col_names, width) ==
    [j \in 1..width |-> ColPlaceholder(j - 1)]

\* The else branch (format_adapters.py:126-129): fragments while they last,
\* then col_<i>.
NumberedNames(potential_col_names, width) ==
    [j \in 1..width |-> IF j - 1 < Len(potential_col_names)
                        THEN potential_col_names[j] ELSE ColPlaceholder(j - 1)]

\* Mutant: the name fragments are never used.
SplitColumnNamesPositional(col, width) == [j \in 1..width |-> ColPlaceholder(j - 1)]

SplitColumnNames(col, width) ==
    LET potential_col_names == Split(col, US)
    IN IF Len(potential_col_names) = width
       THEN CleanedNames(potential_col_names)
       ELSE NumberedNames(potential_col_names, width)

Without(seq, i) == [j \in 1..(Len(seq) - 1) |-> IF j < i THEN seq[j] ELSE seq[j + 1]]

\* df.drop(columns=[col]); pd.concat([split_data, df], axis=1)
ExpandColumn(df, i) ==
    LET col == df.values[i]
        width == SplitWidth(col)
        split_data == [j \in 1..width |-> [r \in 1..df.nrows |-> SplitCell(col[r], j)]]
    IN Frame(SplitColumnNames(df.columns[i], width) \o Without(df.columns, i),
             split_data \o Without(df.values, i), df.nrows)

\* Index of the column the loop of _parse_tab_separated_columns expands:
\* 0 when it expands none, -1 when df[col] is not a Series (the label is
\* carried by several columns) and .dtype raises.
PackedIndex(df) ==
    LET RECURSIVE Scan(_)
        Scan(i) ==
            IF i > Len(df.columns) THEN 0
            ELSE IF df.columns[i] = SOURCE_ID THEN Scan(i + 1)
            ELSE IF Count(df.columns, df.columns[i]) > 1 THEN -1
            ELSE IF IsObject(df.values[i]) /\ IsPacked(df.values[i]) THEN i
            ELSE Scan(i + 1)
    IN Scan(1)

\* Mutant: the loop goes on after an expansion (the break is missing).
ParseTabNoBreak(df) ==
    LET RECURSIVE Go(_, _)
        Go(d, fuel) ==
            LET i == PackedIndex(d)
            IN IF i = -1 THEN Raised
               ELSE IF i = 0 \/ fuel = 0 THEN Ok(d)
               ELSE Go(ExpandColumn(d, i), fuel - 1)
    IN Go(df, Len(df.columns))

\* JSONAdapter._parse_tab_separated_columns
ParseTabSeparatedColumns(df) ==
    LET i == PackedIndex(df)
    IN IF i = -1 THEN Raised
       ELSE IF i = 0 THEN Ok(df)
       ELSE Ok(ExpandColumn(df, i))

\* Mutant: the provenance column is added only when the frame has none.
AddSourceIdIfMissing(df, rid) ==
    IF \E c \in 1..Len(df.columns) : df.columns[c] = SOURCE_ID
    THEN df
    ELSE Frame(Append(df.columns, SOURCE_ID),
               Append(df.values, [r \in 1..df.nrows |-> Str(<<rid>>)]), df.nrows)

\* df['source_id'] = resource_id: every column carrying the label is
\* overwritten; without one the column is appended.
AddSourceId(df, rid) ==
    LET tag == [r \in 1..df.nrows |-> Str(<<rid>>)]
    IN IF \E c \in 1..Len(df.columns) : df.columns[c] = SOURCE_ID
       THEN Frame(df.columns,
                  [c \in 1..Len(df.columns) |->
                     IF df.columns[c] = SOURCE_ID THEN tag ELSE df.values[c]],
                  df.nrows)
       ELSE Frame(Append(df.columns, SOURCE_ID), Append(df.values, tag), df.nrows)

\* ----------------------------------------------------------------- parquet
\* The artifact holds one kind of missing value.
Null == [k |-> "null", s |-> <<>>, n |-> 0]

IsMixed(col) == (\E i \in 1..Len(col) : IsStr(col[i])) /\ (\E i \in 1..Len(col) : col[i].k = "num")

\* df.to_parquet(cache_path, index=False): the conversion refuses repeated
\* column labels and object columns that mix text with numbers, before any
\* file is created; missing values are stored as nulls.
ToParquet(df) ==
    IF ~NoDuplicates(df.columns) \/ (\E c \in 1..Len(df.columns) : IsMixed(df.values[c]))
    THEN Raised
    ELSE Ok(Frame(df.columns,
                  [c \in 1..Len(df.columns) |->
                     [r \in 1..df.nrows |->
                        IF IsNull(df.values[c][r]) THEN Null ELSE df.values[c][r]]],
                  df.nrows))

\* pd.read_parquet(cache_path): nulls come back as None in object columns
\* and as NaN in numeric ones.
ReadParquet(file) ==
    Frame(file.columns,
          [c \in 1..Len(file.columns) |->
             [r \in 1..file.nrows |->
                IF file.values[c][r].k = "null"
                THEN (IF IsObject(file.values[c]) THEN None ELSE NaN)
                ELSE file.values[c][r]]],
          file.nrows)

NoFile == [columns |-> <<>>, values |-> <<>>, nrows |-> -1]

\* ---------------------------------------------------------- read_and_cache
Outcome(raised, df, file, wrote, hit) ==
    [raised |-> raised, df |-> df, file |-> file, wrote |-> wrote, hit |-> hit]

\* The cache-miss path of JSONAdapter.read_and_cache (format_adapters.py:59-75).
\* emptyOk: whether .str is accepted on the column index of a frame built
\* from no keys at all (it depends on the installed pandas).
JSONMiss(rid, data, emptyOk) ==
    IF FirstAppearance(data) = <<>> /\ ~emptyOk THEN Outcome(TRUE, EmptyFrame, NoFile, FALSE, FALSE)
    ELSE LET parsed == ParseTabSeparatedColumns(NormalizeColumns(DataFrame(data)))
         IN IF ~parsed.ok THEN Outcome(TRUE, EmptyFrame, NoFile, FALSE, FALSE)
            ELSE LET df == AddSourceId(parsed.df, rid)
                     written == ToParquet(df)
                 IN IF ~written.ok THEN Outcome(TRUE, EmptyFrame, NoFile, FALSE, FALSE)
                    ELSE Outcome(FALSE, df, written.df, TRUE, FALSE)

\* Mutant: the existence check is missing.
JSONReadAndCacheNoCheck(file, rid, data, emptyOk) == JSONMiss(rid, data, emptyOk)

\* JSONAdapter.read_and_cache: file is the artifact at the cache path, or NoFile.
JSONReadAndCache(file, rid, data, emptyOk) ==
    IF file # NoFile
    THEN Outcome(FALSE, ReadParquet(file), file, FALSE, TRUE)
    ELSE JSONMiss(rid, data, emptyOk)

\* Mutant: the CSV adapter rewrites the artifact on every call.
CSVReadAndCacheNoCheck(file, rid, parsed) ==
    LET df == AddSourceId(NormalizeColumns(parsed), rid)
        written == ToParquet(df)
    IN IF ~written.ok THEN Outcome(TRUE, EmptyFrame, NoFile, FALSE, FALSE)
       ELSE Outcome(FALSE, df, written.df, TRUE, FALSE)

\* CSVAdapter.read_and_cache; parsed is the frame pd.read_csv(url) returns.
CSVReadAndCache(file, rid, parsed) ==
    IF file # NoFile
    THEN Outcome(FALSE, ReadParquet(file), file, FALSE, TRUE)
    ELSE LET df == AddSourceId(NormalizeColumns(parsed), rid)
             written == ToParquet(df)
         IN IF ~written.ok THEN Outcome(TRUE, EmptyFrame, NoFile, FALSE, FALSE)
            ELSE Outcome(FALSE, df, written.df, TRUE, FALSE)

\* format_type.lower() over the format names of the model.
LowerFormat(format_type) ==
    CASE format_type = "JSON" -> "json"
      [] format_type = "CSV" -> "csv"
      [] OTHER -> format_type

\* Mutant: an unknown format falls back to the JSON adapter.
GetAdapterDefaultsToJSON(format_type) ==
    CASE LowerFormat(format_type) = "csv" -> "CSVAdapter"
      [] LowerFormat(format_type) \in {"xlsx", "xls", "excel"} -> "ExcelAdapter"
      [] OTHER -> "JSONAdapter"

\* AdapterFactory.get_adapter: the adapter class, or "ValueError".
GetAdapter(format_type) ==
    CASE LowerFormat(format_type) \in {"json", "api"} -> "JSONAdapter"
      [] LowerFormat(format_type) = "csv" -> "CSVAdapter"
      [] LowerFormat(format_type) \in {"xlsx", "xls", "excel"} -> "ExcelAdapter"
      [] OTHER -> "ValueError"

\* ----------------------------------------------------- the dataset catalog
\* A row of dataset_catalog (dataset_catalog.py:39-49); dataset_id is the
\* primary key.
Row(dataset_id, name, format, category) ==
    [dataset_id |-> dataset_id, name |-> name, format |-> format, category |-> category]

\* Mutant: a plain INSERT without the conflict clause and without the key.
AddDatasetAppend(table, metadata) == Append(table, metadata)

\* DatasetCatalog.add_dataset: INSERT ... ON CONFLICT (dataset_id) DO UPDATE.
AddDataset(table, metadata) ==
    IF \E i \in 1..Len(table) : table[i].dataset_id = metadata.dataset_id
    THEN [i \in 1..Len(table) |->
            IF table[i].dataset_id = metadata.dataset_id THEN metadata ELSE table[i]]
    ELSE Append(table, metadata)

\* DatasetCatalog.get_dataset(dataset_id) is not None
InCatalog(table, dataset_id) == \E i \in 1..Len(table) : table[i].dataset_id = dataset_id

\* DatasetCatalog.list_datasets(category)
ListDatasets(table, category) == SelectSeq(table, LAMBDA r : r.category = category)

\* ------------------------------------------------------- dataset discovery
\* A record of the catalog search: the identifier-like fields ("" when the
\* field is absent, empty or null), the title and the declared format
\* ("null" when the field holds no string).
Dataset(index_name, resource_id, id, org_id, title, format) ==
    [index_name |-> index_name, resource_id |-> resource_id, id |-> id,
     org_id |-> org_id, title |-> title, format |-> format]

\* Mutant: resource_id is looked at before index_name.
ExtractResourceIdResourceFirst(ds) ==
    IF ds.resource_id # "" THEN ds.resource_id
    ELSE IF ds.index_name # "" THEN ds.index_name
    ELSE IF ds.id # "" THEN ds.id
    ELSE ds.org_id

\* DatasetDiscovery._extract_resource_id
ExtractResourceId(ds) ==
    IF ds.index_name # "" THEN ds.index_name
    ELSE IF ds.resource_id # "" THEN ds.resource_id
    ELSE IF ds.id # "" THEN ds.id
    ELSE ds.org_id

\* The "remove duplicates" loop (dataset_discovery.py:139-145, 257-263).
Unique(all_datasets) ==
    LET RECURSIVE F(_, _, _)
        F(i, seen, unique_datasets) ==
            IF i > Len(all_datasets) THEN unique_datasets
            ELSE LET resource_id == ExtractResourceId(all_datasets[i])
                 IN IF resource_id # "" /\ resource_id \notin seen
                    THEN F(i + 1, seen \cup {resource_id},
                           Append(unique_datasets, all_datasets[i]))
                    ELSE F(i + 1, seen, unique_datasets)
    IN F(1, {}, <<>>)

NoMetadata == Row("", "", "", "")

\* DatasetDiscovery._convert_to_metadata: None without an identifier and
\* when format has no lower() (the exception is caught, 224-226); formats
\* outside json, csv, xlsx, xls become json.
ConvertToMetadata(ds, category) ==
    IF ExtractResourceId(ds) = "" \/ ds.format = "null" THEN NoMetadata
    ELSE Row(ExtractResourceId(ds), ds.title,
             IF LowerFormat(ds.format) \in {"json", "csv", "xlsx", "xls"}
             THEN LowerFormat(ds.format) ELSE "json",
             category)

\* self.search_terms (dataset_discovery.py:25-34)
SearchTermsOf(category) ==
    IF category = "climate"
    THEN << <<"rainfall">>, <<"IMD", " ", "rainfall">>, <<"temperature">>, <<"weather">>,
            <<"meteorological">>, <<"precipitation">>, <<"monsoon">> >>
    ELSE << <<"crop", " ", "production">>, <<"agricultural", " ", "statistics">>,
            <<"agriculture">>, <<"crop", " ", "yield">>, <<"farming">>, <<"harvest">>,
            <<"cultivation">> >>

\* The categories in the order self.search_terms.items() yields them.
Categories == <<"climate", "agriculture">>

\* seq[:n]
Take(seq, n) == SubSeq(seq, 1, Min(n, Len(seq)))

\* The answer of a catalog search request: kind is "raises" (requests.get
\* or response.json() raised), "status" (not 200), "records" (top-level
\* array), "nested" (result.records), "other" (neither key) or "null"
\* ("records" is present and holds null).
SearchResponse(kind, records) == [kind |-> kind, records |-> records]

\* What search_datasets returns: the records, or a value that is no list
\* when data["records"] is returned and holds null.
SearchDatasets(response) ==
    [is_list |-> response.kind # "null",
     records |-> IF response.kind \in {"records", "nested"} THEN response.records ELSE <<>>]

\* The answer of a generate_content call: ok is FALSE when the call or
\* response.text raises.
LLMResponse(ok, text) == [ok |-> ok, text |-> text]
LLMFails == LLMResponse(FALSE, <<>>)

\* [k.strip() for k in text.split(",")]
SplitAndStrip(text) == [k \in 1..Len(Split(text, ",")) |-> Strip(Split(text, ",")[k])]

\* term in question_lower, for terms and questions made of whole atoms.
Contains(s, term) == \E i \in 1..(Len(s) - Len(term) + 1) : SubSeq(s, i, i + Len(term) - 1) = term

climate_terms ==
    << <<"rainfall">>, <<"temperature">>, <<"weather">>, <<"monsoon">>,
       <<"precipitation">>, <<"climate">> >>
agri_terms ==
    << <<"crop">>, <<"agriculture">>, <<"farming">>, <<"yield">>, <<"production">>,
       <<"harvest">> >>

\* keywords[:4] (dataset_discovery.py:322, 345)
MaxKeywords == 4

\* Mutant: an empty scan is returned as it is.
BasicKeywordExtractionNoDefault(question) ==
    Take(SelectSeq(climate_terms \o agri_terms, LAMBDA t : Contains(Lower(question), t)),
         MaxKeywords)

\* DatasetDiscovery._basic_keyword_extraction
BasicKeywordExtraction(question) ==
    LET question_lower == Lower(question)
        keywords == SelectSeq(climate_terms, LAMBDA t : Contains(question_lower, t))
                    \o SelectSeq(agri_terms, LAMBDA t : Contains(question_lower, t))
    IN IF keywords # <<>> THEN Take(keywords, MaxKeywords)
       ELSE << <<"rainfall">>, <<"crop", " ", "production">> >>

\* DatasetDiscovery._extract_search_keywords
ExtractSearchKeywords(question, response) ==
    IF response.ok THEN Take(SplitAndStrip(Strip(response.text)), MaxKeywords)
    ELSE BasicKeywordExtraction(question)

\* Mutant: a failed call counts as climate.
CategorizeDatasetFailureIsClimate(response) ==
    IF ~response.ok THEN "climate"
    ELSE IF Lower(Strip(response.text)) \in {<<"climate">>, <<"agriculture">>}
    THEN Lower(Strip(response.text))[1]
    ELSE "none"

\* DatasetDiscovery.categorize_dataset: the category, or "none" for None.
CategorizeDataset(response) ==
    IF response.ok /\ Lower(Strip(response.text)) \in {<<"climate">>, <<"agriculture">>}
    THEN Lower(Strip(response.text))[1]
    ELSE "none"

\* Mutant: a failed relevance call gives the empty list.
GetRelevantDatasetsEmptyOnFailure(table, response) ==
    IF ~response.ok THEN <<>>
    ELSE IF Strip(response.text) = <<"NONE">> THEN <<>>
    ELSE SplitAndStrip(Strip(response.text))

\* DatasetDiscovery.get_relevant_datasets: the identifiers, each as text.
GetRelevantDatasets(table, response) ==
    LET listed == ListDatasets(table, "climate") \o ListDatasets(table, "agriculture")
    IN IF ~response.ok THEN [i \in 1..Len(listed) |-> <<listed[i].dataset_id>>]
       ELSE IF Strip(response.text) = <<"NONE">> THEN <<>>
       ELSE SplitAndStrip(Strip(response.text))

\* Locals of a DatasetDiscovery call: cat and i index the category and the
\* term or keyword being searched, k the candidate being looked at.
IdleLoc == [op |-> "none", question |-> <<>>, keywords |-> <<>>, cat |-> 0, i |-> 0,
            all |-> <<>>, unique |-> <<>>, k |-> 0]

\* What a call has done: the queries searched, the model calls made, the
\* candidates skipped, classified and registered, the steps that fell back,
\* the catalog it started from, the de-duplicated candidates and (bootstrap)
\* the merged search results and the lists it returns.
StartLog(op, table) ==
    [op |-> op, question |-> <<>>, searches |-> <<>>, keyword_calls |-> 0, keywords |-> <<>>,
     skipped |-> <<>>, classified |-> <<>>, answers |-> <<>>, registered |-> <<>>,
     relevance_calls |-> 0, listed |-> <<>>, answer |-> LLMFails, failed |-> {},
     before |-> table, candidates |-> <<>>,
     found |-> [c \in {"climate", "agriculture"} |-> <<>>],
     discovered |-> [c \in {"climate", "agriculture"} |-> <<>>]]
NoLog == StartLog("none", <<>>)

\* The outcome of a call: kind is "ids" (discover_and_add_datasets_for_question
\* returned a list), "discovered" (discover_all_datasets returned) or
\* "raised"; calls counts the calls made so far.
DiscoveryResult(calls, kind, ids) == [calls |-> calls, kind |-> kind, ids |-> ids]

DiscoveryIdle ==
    /\ dpc = "idle"
    /\ dloc = IdleLoc
    /\ dlog = NoLog
    /\ dret = DiscoveryResult(0, "none", <<>>)

\* --------------------------------------------------------- the interpreter
\* What the interpreter holds as the data of a dataset: a DataFrame, or what
\* evaluating an expression written by the model gave in its place (a
\* Series carries its values as the one column of df).
Value(type, df) == [type |-> type, df |-> df]
Table(df) == Value("DataFrame", df)
NoneValue == Value("NoneType", EmptyFrame)

\* DataFrame.empty, Series.empty
IsEmpty(df) == df.nrows = 0 \/ df.columns = <<>>

\* Tables of more rows than this are filtered (data_interpreter.py:51, 161).
FilterThreshold == 100

\* df.iloc[rows]: the rows at the given positions, in that order.
TakeRows(df, rows) ==
    Frame(df.columns,
          [c \in 1..Len(df.columns) |-> [k \in 1..Len(rows) |-> df.values[c][rows[k]]]],
          Len(rows))

\* Position of the column with the given label (the first, if repeated).
ColumnAt(df, label) == CHOOSE c \in 1..Len(df.columns) :
                          /\ df.columns[c] = label
                          /\ \A b \in 1..(c - 1) : df.columns[b] # label

\* The markdown fence of a code block (three backquotes), as one character.
FENCE == "<fence>"

\* The expression taken from the model's text (data_interpreter.py:104-114):
\* trimmed, and when it opens with a fence, the text between the first two
\* fences without a leading "python"; any fence left is removed.
CleanExpression(text) ==
    LET stripped == Strip(text)
        inner == IF stripped # <<>> /\ stripped[1] = FENCE
                 THEN LET block == Split(stripped, FENCE)[2]
                      IN Strip(IF block # <<>> /\ block[1] = "python" THEN Tail(block) ELSE block)
                 ELSE stripped
    IN Strip(SelectSeq(inner, LAMBDA ch : ch # FENCE))

\* eval(filter_expr, {"df": df, "pd": pd}) for the expressions the model's
\* answers below hold; an expression Python cannot evaluate raises.
Evaluated(raised, value) == [raised |-> raised, value |-> value]
Eval(filter_expr, df) ==
    LET year == <<"year">>
        has == \E c \in 1..Len(df.columns) : df.columns[c] = year
    IN CASE filter_expr = <<"df[df['year'] > 50]">> /\ has ->
              LET col == df.values[ColumnAt(df, year)]
                  keep == SelectSeq([r \in 1..df.nrows |-> r],
                                    LAMBDA r : col[r].k = "num" /\ col[r].n > 50)
              IN Evaluated(FALSE, Table(TakeRows(df, keep)))
         [] filter_expr = <<"df['year']">> /\ has ->
              Evaluated(FALSE, Value("Series",
                                     Frame(<<year>>, <<df.values[ColumnAt(df, year)]>>, df.nrows)))
         [] filter_expr = <<"len(df)">> ->
              Evaluated(FALSE, Value("int", EmptyFrame))
         [] OTHER -> Evaluated(TRUE, NoneValue)

\* Mutant: without the except clause, a failure leaves no table.
FilterDatasetForQueryNoFallback(df, response) ==
    IF df.nrows <= FilterThreshold THEN Table(df)
    ELSE IF ~response.ok THEN NoneValue
    ELSE LET filter_expr == CleanExpression(response.text)
             result == Eval(filter_expr, df)
         IN IF filter_expr = <<"df">> \/ (\E i \in 1..Len(filter_expr) :
                                             LowerAtom(filter_expr[i]) = "# no filter")
            THEN Table(df)
            ELSE IF result.raised \/ result.value.type \notin {"DataFrame", "Series"}
            THEN NoneValue
            ELSE result.value

\* DataInterpreter.filter_dataset_for_query with the model's answer: the
\* original table when there is nothing to filter, when the call failed
\* and when eval() or len() of its value raised; the value otherwise.
FilterDatasetForQuery(df, response) ==
    IF df.nrows <= FilterThreshold \/ ~response.ok THEN Table(df)
    ELSE LET filter_expr == CleanExpression(response.text)
             result == Eval(filter_expr, df)
         IN IF filter_expr = <<"df">> \/ (\E i \in 1..Len(filter_expr) :
                                             LowerAtom(filter_expr[i]) = "# no filter")
            THEN Table(df)
            ELSE IF result.raised \/ result.value.type \notin {"DataFrame", "Series"}
            THEN Table(df)
            ELSE result.value

\* [first, first + 1, ..., last]
Range(first, last) == [i \in 1..(last - first + 1) |-> first + i - 1]

\* The split of _smart_sample (data_interpreter.py:263-265): int(max_rows *
\* 0.4) and int(max_rows * 0.2) in binary floating point, which for every
\* max_rows from 0 up to a million are 2 * max_rows div 5 and max_rows div 5.
FirstN(max_rows) == (2 * max_rows) \div 5
MiddleN(max_rows) == max_rows \div 5
LastN(max_rows) == max_rows - FirstN(max_rows) - MiddleN(max_rows)

\* Mutant: the middle block starts at the middle row.
SmartSampleRowsFromMiddle(n, max_rows) ==
    IF n <= max_rows THEN Range(1, n)
    ELSE Range(1, Min(FirstN(max_rows), n))
         \o Range(n \div 2 + 1, Min(n \div 2 + MiddleN(max_rows), n))
         \o Range(n - LastN(max_rows) + 1, n)

\* The row positions (from 1) DataInterpreter._smart_sample takes of a table
\* of n rows, for 0 <= max_rows: all of them, or df.head(first_n),
\* df.iloc[middle_start:middle_start + middle_n] and df.tail(last_n).
SmartSampleRows(n, max_rows) ==
    IF n <= max_rows THEN Range(1, n)
    ELSE LET middle_start == (n - MiddleN(max_rows)) \div 2
         IN Range(1, Min(FirstN(max_rows), n))
            \o Range(middle_start + 1, Min(middle_start + MiddleN(max_rows), n))
            \o Range(n - LastN(max_rows) + 1, n)

\* DataInterpreter._smart_sample
SmartSample(df, max_rows) == TakeRows(df, SmartSampleRows(df.nrows, max_rows))

\* max_rows of the to_string call that writes the sample section
\* (data_interpreter.py:238).
DisplayMaxRows == 50

\* The row positions DataFrame.to_string(max_rows=DisplayMaxRows) prints of
\* a table of n rows: all of them, or the first and the last
\* DisplayMaxRows div 2 around an ellipsis row.
DisplayedRows(n) ==
    IF n <= DisplayMaxRows THEN Range(1, n)
    ELSE Range(1, DisplayMaxRows \div 2) \o Range(n - DisplayMaxRows \div 2 + 1, n)

\* DataInterpreter._prepare_dataset_summary: raised when the value has no
\* columns attribute (data_interpreter.py:217); nodata is the "No data
\* available" summary, otherwise the summary is of data, sample is what
\* _smart_sample returned and shown the rows its sample section prints.
Summary(name, raised, nodata, data, sample, shown) ==
    [name |-> name, raised |-> raised, nodata |-> nodata, data |-> data,
     sample |-> sample, shown |-> shown]
PrepareDatasetSummary(name, value, max_rows) ==
    IF value.type = "NoneType" THEN Summary(name, FALSE, TRUE, NoneValue, EmptyFrame, EmptyFrame)
    ELSE IF value.type \notin {"DataFrame", "Series"}
    THEN Summary(name, TRUE, FALSE, NoneValue, EmptyFrame, EmptyFrame)
    ELSE IF IsEmpty(value.df) THEN Summary(name, FALSE, TRUE, NoneValue, EmptyFrame, EmptyFrame)
    ELSE IF value.type # "DataFrame"
    THEN Summary(name, TRUE, FALSE, NoneValue, EmptyFrame, EmptyFrame)
    ELSE LET sample_df == SmartSample(value.df, max_rows)
         IN Summary(name, FALSE, FALSE, value, sample_df,
                    TakeRows(sample_df, DisplayedRows(sample_df.nrows)))

\* ------------------------------------------------------------ the question
\* max_datasets of answer_question (app_direct.py:39).
MaxDatasets == 5

\* max_rows_per_dataset of answer_question (app_direct.py:40).
MaxRowsPerDataset == 1000

\* DatasetCatalog.get_dataset(ds_id) for an identifier given as text:
\* the row, or NoMetadata for None.
GetDataset(table, ds_id) ==
    LET hits == SelectSeq(table, LAMBDA r : <<r.dataset_id>> = ds_id)
    IN IF hits = <<>> THEN NoMetadata ELSE hits[1]

\* The datasets answer_question works on (app_direct.py:72-82).
DatasetList(table, relevant_dataset_ids) ==
    IF relevant_dataset_ids # <<>>
    THEN LET ids == Take(relevant_dataset_ids, MaxDatasets)
         IN SelectSeq([i \in 1..Len(ids) |-> GetDataset(table, ids[i])],
                      LAMBDA ds : ds # NoMetadata)
    ELSE Take(table, MaxDatasets)

\* An entry of datasets_with_data (app_direct.py:101-105).
WithData(dataset, raw_data) == [name |-> dataset.name, data |-> raw_data, metadata |-> dataset]

\* Index of the first dataset from j on that is filtered
\* (data_interpreter.py:161), or Len(datasets) + 1.
NextLarge(datasets, j) ==
    LET large == {m \in j..Len(datasets) : datasets[m].data.df.nrows > FilterThreshold}
    IN IF large = {} THEN Len(datasets) + 1 ELSE CHOOSE m \in large : \A n \in large : m <= n

\* The summaries of the datasets j..j2-1, which are not filtered.
Summaries(datasets, j, j2) ==
    [m \in 1..(j2 - j) |-> PrepareDatasetSummary(datasets[j + m - 1].name, datasets[j + m - 1].data,
                                              MaxRowsPerDataset)]

\* Locals of an answer_question call: k indexes the dataset being fetched,
\* j the dataset being filtered and summarized.
IdleAnswer == [question |-> <<>>, discovered_new |-> FALSE, dataset_list |-> <<>>, k |-> 0,
               datasets_with_data |-> <<>>, j |-> 0, dataset_summaries |-> <<>>]

\* What a call has done: the identifiers discovery gave, what each fetch
\* returned, the filter calls made with their answers and the values they
\* left, the final model calls and the summaries sent with them.
StartAnswerLog(question, auto_discover) ==
    [question |-> question, auto_discover |-> auto_discover, relevant |-> <<>>,
     fetched |-> <<>>, filter_calls |-> <<>>, filtered |-> <<>>, final_calls |-> 0,
     sent |-> <<>>, final |-> LLMFails]
NoAnswerLog == StartAnswerLog(<<>>, FALSE)

\* The outcome of a call: kind is "answer" (the narrative), "no_datasets",
\* "failed_fetch" (the two early returns) or "raised".
AnswerResult(calls, kind, datasets_used) ==
    [calls |-> calls, kind |-> kind, datasets_used |-> datasets_used]

\* What the table preparer is given: the data of one dataset of
\* interpret_and_answer, the auto_filter flag, max_rows and the answer the
\* filter model call gets if it is made.
PrepareInput(data, auto_filter, max_rows, response) ==
    [data |-> data, auto_filter |-> auto_filter, max_rows |-> max_rows, response |-> response]
NoPrepareInput == PrepareInput(NoneValue, FALSE, 0, LLMFails)

\* What it has made of it: stage is "input", "filtered" or "summarized",
\* called tells whether filter_dataset_for_query was called, value is the
\* data after the filter step.
Prepared(stage, called, value, summary) ==
    [stage |-> stage, called |-> called, value |-> value, summary |-> summary]
NoSummary == Summary("", FALSE, TRUE, NoneValue, EmptyFrame, EmptyFrame)
NoPrepared == Prepared("input", FALSE, NoneValue, NoSummary)

\* No caller is inside read_and_cache.
CallerIds == {"c1", "c2"}
NoReturn == [kind |-> "none", path |-> "none", df |-> EmptyFrame]
IdleCaller == [pc |-> "idle", calls |-> 0, data |-> <<>>, emptyOk |-> TRUE, df |-> EmptyFrame,
               clashed |-> FALSE, ret |-> NoReturn]
CallersIdle ==
    /\ callers = [c \in CallerIds |-> IdleCaller]
    /\ writers = <<>>

PrepareIdle ==
    /\ pin = NoPrepareInput
    /\ pout = NoPrepared

AnswerIdle ==
    /\ apc = "idle"
    /\ aloc = IdleAnswer
    /\ alog = NoAnswerLog
    /\ aret = AnswerResult(0, "none", <<>>)

\* ------------------------------------------------------------- the remote
ResourceIds == {"r1", "r2"}
NoRid == "none"
Formats == {"json", "JSON", "api", "csv", "pdf"}

\* The k-th record the remote API holds for a resource: r1 exports a whole
\* row as one tab-joined string, r2 has plain fields.
RemoteRecord(rid, k) ==
    IF rid = "r1"
    THEN << << <<"state", " ", "year">>, Str(<<"MH", TAB>> \o IntToStr(k)) >> >>
    ELSE << << <<"v">>, Num(k) >>, << <<"source", "-", "ID">>, Str(<<"x">>) >> >>

RemoteRecords(rid, n) == [k \in 1..n |-> RemoteRecord(rid, k)]

\* The "records" array of the response to limit/offset.
Page(records, limit, offset) == SubSeq(records, offset + 1, Min(offset + limit, Len(records)))

\* ------------------------------------------------------------ the caller
IdleCall == [via |-> "none", rid |-> NoRid, limit |-> 0, offset |-> 0,
             all_records |-> <<>>, attempt |-> 0, first_exp |-> 0, waits |-> <<>>]
NoHist == [via |-> "none", format |-> "none", limit |-> 0, requests |-> <<>>,
           received |-> <<>>, hadCache |-> FALSE, end |-> "none"]
Started(via, limit, hadCache) ==
    [via |-> via, format |-> IF via = "app" THEN "json" ELSE "none", limit |-> limit,
     requests |-> <<>>, received |-> <<>>, hadCache |-> hadCache, end |-> "running"]
\* A _fetch_raw_data call that returned None before any request: end is
\* "noid" (app_direct.py:156-158), "unsupported" (get_adapter raised, 162 and
\* 180-182) or "notjson" (176-178).
Skipped(format_type, end) == [NoHist EXCEPT !.via = "app", !.format = format_type, !.end = end]

Result(via, rid, kind, df, records, attempts, exhausted, wrote, hit) ==
    [via |-> via, rid |-> rid, kind |-> kind, df |-> df, records |-> records,
     attempts |-> attempts, exhausted |-> exhausted, wrote |-> wrote, hit |-> hit]
NoResult == Result("none", NoRid, "init", EmptyFrame, <<>>, 0, FALSE, FALSE, FALSE)

NoTout == [calls |-> 0, before |-> EmptyFrame, after |-> Raised]

Init ==
    /\ remote \in {[rid \in ResourceIds |-> RemoteRecords(rid, n[rid])] :
                     n \in [ResourceIds -> 0..MaxRemote]}
    /\ cache = [rid \in ResourceIds |-> NoFile]
    /\ pc = "idle"
    /\ call = IdleCall
    /\ hist = NoHist
    /\ ret = NoResult
    /\ completed = {}
    /\ writes = [rid \in ResourceIds |-> 0]
    /\ lastHit = [rid \in ResourceIds |-> NoFile]
    /\ tin = <<>>
    /\ tout = NoTout
    /\ catalog = <<>>
    /\ DiscoveryIdle
    /\ AnswerIdle
    /\ PrepareIdle
    /\ CallersIdle

\* The store after read_and_cache came back with outcome o.
Stored(rid, o) ==
    /\ cache' = IF o.wrote THEN [cache EXCEPT ![rid] = o.file] ELSE cache
    /\ writes' = IF o.wrote THEN [writes EXCEPT ![rid] = @ + 1] ELSE writes
    /\ lastHit' = IF o.hit THEN [lastHit EXCEPT ![rid] = o.df] ELSE lastHit

\* What the end of fetch_all_pages leads to. A direct caller gets the list;
\* _fetch_raw_data (app_direct.py:166-175) returns None for an empty list and
\* otherwise hands the list to read_and_cache, any exception giving None.
Finish(c, records, attempts, exhausted) ==
    /\ pc' = "idle"
    /\ call' = IdleCall
    /\ completed' = IF exhausted THEN completed ELSE completed \cup {c.rid}
    /\ IF c.via = "direct"
       THEN /\ ret' = Result("direct", c.rid, "records", EmptyFrame, records, attempts,
                             exhausted, FALSE, FALSE)
            /\ UNCHANGED <<cache, writes, lastHit>>
       ELSE IF records = <<>>
       THEN /\ ret' = Result("app", c.rid, "none", EmptyFrame, records, attempts,
                             exhausted, FALSE, FALSE)
            /\ UNCHANGED <<cache, writes, lastHit>>
       ELSE \E o \in {JSONReadAndCache(cache[c.rid], c.rid, records, TRUE)} :
               /\ ret' = Result("app", c.rid, IF o.raised THEN "none" ELSE "df", o.df,
                                records, attempts, exhausted, o.wrote, o.hit)
               /\ Stored(c.rid, o)

\* SamarthDirectApp._fetch_raw_data up to its first remote request.
FetchRawData(rid, format_type) ==
    /\ pc = "idle"
    /\ UNCHANGED <<cvars, pvars, avars, dvars, remote, cache, completed, writes, lastHit, tin, tout>>
    /\ IF rid # NoRid /\ GetAdapter(format_type) # "ValueError" /\ format_type = "json"
       THEN /\ pc' = "fetch_resource"
            /\ call' = [via |-> "app", rid |-> rid, limit |-> AppLimitPerPage, offset |-> 0,
                        all_records |-> <<>>, attempt |-> 0, first_exp |-> 0,
                        waits |-> <<>>]
            /\ hist' = Started("app", AppLimitPerPage, cache[rid] # NoFile)
            /\ ret' = NoResult
       ELSE /\ ret' = Result("app", rid, "none", EmptyFrame, <<>>, 0, FALSE, FALSE, FALSE)
            /\ hist' = IF rid = NoRid THEN Skipped("none", "noid")
                       ELSE IF GetAdapter(format_type) = "ValueError"
                       THEN Skipped(format_type, "unsupported")
                       ELSE Skipped(format_type, "notjson")
            /\ UNCHANGED <<pc, call>>

\* DataGovClient.fetch_all_pages called directly, up to its first request.
FetchAllPages(rid, limit_per_page) ==
    /\ pc = "idle"
    /\ pc' = "fetch_resource"
    /\ call' = [via |-> "direct", rid |-> rid, limit |-> limit_per_page, offset |-> 0,
                all_records |-> <<>>, attempt |-> 0, first_exp |-> 0, waits |-> <<>>]
    /\ hist' = Started("direct", limit_per_page, cache[rid] # NoFile)
    /\ ret' = NoResult
    /\ UNCHANGED <<cvars, pvars, avars, dvars, remote, cache, completed, writes, lastHit, tin, tout>>

\* The page request being attempted is logged once, at its first attempt.
Requested == IF call.attempt = 0 THEN Append(hist.requests, call.offset) ELSE hist.requests

\* Mutant: one attempt too many.
ShouldStopOffByOne(attempt_number) == attempt_number > MaxAttempts

\* stop_after_attempt(3): whether the attempt just made was the last one.
ShouldStop(attempt_number) == attempt_number >= MaxAttempts

\* wait_exponential(multiplier=1, min=2, max=10) of the retry decorator.
WaitMultiplier == 1
WaitMin == 2
WaitMax == 10

\* The exponent the retry library gives the wait after the first attempt:
\* 1 in releases that wait multiplier * 2^attempt_number, 0 in releases that
\* wait multiplier * 2^(attempt_number - 1). The program pins no release.
FirstExponents == {0, 1}

\* Mutant: the min argument is left out of the decorator.
WaitExponentialNoMin(attempt_number, first_exp) ==
    Min(WaitMultiplier * 2 ^ (attempt_number - 1 + first_exp), WaitMax)

\* The wait after attempt attempt_number: the exponential delay clamped to
\* [min, max].
WaitExponential(attempt_number, first_exp) ==
    Max(WaitMin, Min(WaitMultiplier * 2 ^ (attempt_number - 1 + first_exp), WaitMax))

\* Mutant: the failure is swallowed and the pages so far are returned.
ExhaustedOutcomePartial(c) == [raised |-> FALSE, records |-> c.all_records]

\* What fetch_all_pages does when fetch_resource gives up: nothing, the
\* exception leaves the loop and the function (data_gov_client.py:63).
ExhaustedOutcome(c) == [raised |-> TRUE, records |-> <<>>]

\* One attempt of fetch_resource fails (requests.get, raise_for_status or
\* response.json raises) and tenacity schedules another.
AttemptFailsRetry ==
    /\ pc = "fetch_resource"
    /\ ~ShouldStop(call.attempt + 1)
    /\ \E first_exp \in (IF call.attempt = 0 THEN FirstExponents ELSE {call.first_exp}) :
          call' = [call EXCEPT !.attempt = @ + 1,
                               !.first_exp = first_exp,
                               !.waits = Append(@, WaitExponential(call.attempt + 1, first_exp))]
    /\ hist' = [hist EXCEPT !.requests = Requested]
    /\ UNCHANGED <<cvars, pvars, avars, dvars, remote, cache, pc, ret, completed, writes, lastHit, tin, tout>>

\* The last attempt fails: the retry error leaves fetch_all_pages; the
\* handler of _fetch_raw_data (app_direct.py:180-182) turns it into None.
AttemptFailsLast ==
    /\ pc = "fetch_resource"
    /\ ShouldStop(call.attempt + 1)
    /\ hist' = [hist EXCEPT !.requests = Requested, !.end = "exhausted"]
    /\ UNCHANGED <<cvars, pvars, avars, dvars, remote, tin, tout>>
    /\ LET o == ExhaustedOutcome(call)
       IN IF o.raised
          THEN /\ pc' = "idle"
               /\ call' = IdleCall
               /\ ret' = Result(call.via, call.rid,
                                IF call.via = "direct" THEN "error" ELSE "none",
                                EmptyFrame, o.records, call.attempt + 1, TRUE, FALSE, FALSE)
               /\ UNCHANGED <<cache, completed, writes, lastHit>>
          ELSE Finish(call, o.records, call.attempt + 1, TRUE)

\* Mutant: the loop stops only at an empty page.
ContinuesUntilEmpty(records, limit_per_page) == records # <<>>

\* Whether the loop of fetch_all_pages goes on after a page of records.
Continues(records, limit_per_page) == records # <<>> /\ ~(Len(records) < limit_per_page)

\* The response carries "records" (data_gov_client.py:65-77).
PageArrives ==
    /\ pc = "fetch_resource"
    /\ hist' = [hist EXCEPT !.requests = Requested,
                            !.received = Append(@, Len(Page(remote[call.rid], call.limit, call.offset))),
                            !.end = IF Continues(Page(remote[call.rid], call.limit, call.offset), call.limit)
                                    THEN "running" ELSE "records"]
    /\ UNCHANGED <<cvars, pvars, avars, dvars, remote, tin, tout>>
    /\ LET records == Page(remote[call.rid], call.limit, call.offset)
           all_records == call.all_records \o records
       IN IF Continues(records, call.limit)
          THEN /\ call' = [call EXCEPT !.all_records = all_records,
                                       !.offset = @ + call.limit, !.attempt = 0,
                                       !.first_exp = 0, !.waits = <<>>]
               /\ UNCHANGED <<cache, pc, ret, completed, writes, lastHit>>
          ELSE Finish(call, all_records, call.attempt + 1, FALSE)

\* Mutant: response["records"] is read without the membership test.
NoRecordsKeyRaises ==
    /\ pc = "fetch_resource"
    /\ hist' = [hist EXCEPT !.requests = Requested, !.end = "nokey"]
    /\ pc' = "idle"
    /\ call' = IdleCall
    /\ ret' = Result(call.via, call.rid, IF call.via = "direct" THEN "error" ELSE "none",
                     EmptyFrame, <<>>, call.attempt + 1, FALSE, FALSE, FALSE)
    /\ UNCHANGED <<cvars, pvars, avars, dvars, remote, cache, completed, writes, lastHit, tin, tout>>

\* The response lacks "records" (data_gov_client.py:78-80).
NoRecordsKey ==
    /\ pc = "fetch_resource"
    /\ hist' = [hist EXCEPT !.requests = Requested, !.end = "nokey"]
    /\ UNCHANGED <<cvars, pvars, avars, dvars, remote, tin, tout>>
    /\ Finish(call, call.all_records, call.attempt + 1, FALSE)

Next ==
    \/ \E rid \in ResourceIds \cup {NoRid}, f \in Formats : FetchRawData(rid, f)
    \/ \E rid \in ResourceIds, l \in 1..MaxPageSize : FetchAllPages(rid, l)
    \/ AttemptFailsRetry
    \/ AttemptFailsLast
    \/ PageArrives
    \/ NoRecordsKey

Spec == Init /\ [][Next]_vars

\* --------------------------------------------- read_and_cache called directly
\* Payloads a direct caller hands to an adapter: nothing, one packed record,
\* and two records of which the second lacks a key.
ApiPayloads ==
    { <<>>,
      << << << <<"A", " ", "b">>, Str(<<"x", TAB, "y">>) >> >> >>,
      << << << <<"a">>, Str(<<"x">>) >>, << <<"b">>, Str(<<"y">>) >> >>,
         << << <<"a">>, Str(<<"z">>) >> >> >> }

\* Whether pandas accepts .str on the column index matters for a payload
\* without keys only.
EmptyChoices(data) == IF FirstAppearance(data) = <<>> THEN BOOLEAN ELSE {TRUE}

\* JSONAdapter.read_and_cache(resource_id, data)
NormalizeJSON(rid, data, emptyOk) ==
    /\ pc = "idle"
    /\ \E o \in {JSONReadAndCache(cache[rid], rid, data, emptyOk)} :
          /\ ret' = Result("json", rid, IF o.raised THEN "error" ELSE "df", o.df, data, 0,
                           FALSE, o.wrote, o.hit)
          /\ Stored(rid, o)
    /\ hist' = NoHist
    /\ UNCHANGED <<cvars, pvars, avars, dvars, remote, pc, call, completed, tin, tout>>

\* CSVAdapter.read_and_cache(resource_id, url); data is what the file at url holds.
NormalizeCSV(rid, data) ==
    /\ pc = "idle"
    /\ data # <<>>
    /\ \E o \in {CSVReadAndCache(cache[rid], rid, DataFrame(data))} :
          /\ ret' = Result("csv", rid, IF o.raised THEN "error" ELSE "df", o.df, data, 0,
                           FALSE, o.wrote, o.hit)
          /\ Stored(rid, o)
    /\ hist' = NoHist
    /\ UNCHANGED <<cvars, pvars, avars, dvars, remote, pc, call, completed, tin, tout>>

\* The orchestrator's steps together with direct use of the adapters, over
\* small resources.
InitApi ==
    /\ Init
    /\ \A rid \in ResourceIds : Len(remote[rid]) <= MaxApiRemote

NextApi ==
    \/ \E rid \in ResourceIds \cup {NoRid}, f \in Formats : FetchRawData(rid, f)
    \/ AttemptFailsRetry
    \/ AttemptFailsLast
    \/ PageArrives
    \/ NoRecordsKey
    \/ \E rid \in ResourceIds, data \in ApiPayloads :
          \E emptyOk \in EmptyChoices(data) : NormalizeJSON(rid, data, emptyOk)
    \/ \E rid \in ResourceIds, data \in ApiPayloads : NormalizeCSV(rid, data)

SpecApi == InitApi /\ [][NextApi]_vars

\* ------------------------------------------------- the adapter on its own
\* Raw column names of the payloads.
RawNames ==
    { <<"state", US, "year", US, "rain">>,
      <<"A", " ", "b">>,
      <<"a", US, "b">>,
      <<"a", US, US, "b">>,
      <<"a", US, "a">>,
      <<"col", US, US, "col">>,
      <<"source", "-", "ID">>,
      <<"v">> }

\* Values of the payloads; Absent marks a key the record does not have.
Absent == [k |-> "absent", s |-> <<>>, n |-> 0]
RawCells ==
    { Str(<<"x", TAB, "y">>),
      Str(<<"MH", TAB, "2020", TAB, "850">>),
      Num(1),
      Absent }

KeyLists ==
    {<<a>> : a \in RawNames} \cup {<<p[1], p[2]>> : p \in {q \in RawNames \X RawNames : q[1] # q[2]}}

\* The record with the given keys, in order, leaving out the absent ones.
MakeRecord(keys, row) ==
    LET RECURSIVE F(_, _)
        F(i, acc) ==
            IF i > Len(keys) THEN acc
            ELSE IF row[i] = Absent THEN F(i + 1, acc)
            ELSE F(i + 1, Append(acc, <<keys[i], row[i]>>))
    IN F(1, <<>>)

\* The payload with the given keys and one row of values per record.
MakePayload(keys, rows) == [r \in 1..Len(rows) |-> MakeRecord(keys, rows[r])]

\* The payload of the second call.
OtherPayload == << << << <<"v">>, Num(7) >> >> >>

AdapterRid == "r1"

InitAdapter ==
    /\ \E keys \in KeyLists, n \in 0..MaxRecords :
          \E rows \in [1..n -> [1..Len(keys) -> RawCells]] :
              tin = MakePayload(keys, rows)
    /\ tout = NoTout
    /\ remote = [rid \in ResourceIds |-> <<>>]
    /\ cache = [rid \in ResourceIds |-> NoFile]
    /\ pc = "idle"
    /\ call = IdleCall
    /\ hist = NoHist
    /\ ret = NoResult
    /\ completed = {}
    /\ writes = [rid \in ResourceIds |-> 0]
    /\ lastHit = [rid \in ResourceIds |-> NoFile]
    /\ catalog = <<>>
    /\ DiscoveryIdle
    /\ AnswerIdle
    /\ PrepareIdle
    /\ CallersIdle

\* One call of JSONAdapter.read_and_cache, with the frame before and after
\* _parse_tab_separated_columns observed when the call gets that far.
AdapterCall(data, emptyOk) ==
    /\ \E o \in {JSONReadAndCache(cache[AdapterRid], AdapterRid, data, emptyOk)},
          before \in {NormalizeColumns(DataFrame(data))} :
          LET parses == ~o.hit /\ (FirstAppearance(data) # <<>> \/ emptyOk)
          IN /\ ret' = Result("json", AdapterRid, IF o.raised THEN "error" ELSE "df", o.df,
                              data, 0, FALSE, o.wrote, o.hit)
             /\ Stored(AdapterRid, o)
             /\ tout' = [calls |-> tout.calls + 1,
                         before |-> IF parses THEN before ELSE EmptyFrame,
                         after |-> IF parses THEN ParseTabSeparatedColumns(before) ELSE Raised]
    /\ UNCHANGED <<cvars, pvars, avars, dvars, remote, pc, call, hist, completed, tin>>

AdapterFirst == tout.calls = 0 /\ \E emptyOk \in EmptyChoices(tin) : AdapterCall(tin, emptyOk)
AdapterSecond == tout.calls = 1 /\ AdapterCall(OtherPayload, TRUE)

NextAdapter == AdapterFirst \/ AdapterSecond

SpecAdapter == InitAdapter /\ [][NextAdapter]_vars

\* ------------------------------------------------------ discovery at work
\* Largest number of DatasetDiscovery calls in a run.
MaxRuns == 2
\* Stand-in for the seven search terms per category.
NumTerms == 2
\* Stand-in for the cap unique_datasets[:10] (dataset_discovery.py:150).
BootstrapCap == 2

\* The variables of the fetching side.
fvars == <<remote, cache, pc, call, hist, ret, completed, writes, lastHit, tin, tout>>

\* Records the catalog search returns.
DsA == Dataset("d1", "d2", "", "", "A", "json")
DsB == Dataset("", "d1", "", "", "B", "CSV")
DsC == Dataset("", "", "d2", "", "C", "pdf")
DsD == Dataset("", "", "", "d3", "D", "json")
DsE == Dataset("", "", "", "", "E", "json")
DsF == Dataset("", "", "d3", "", "F", "null")

SearchResponses ==
    { SearchResponse("raises", <<>>),
      SearchResponse("status", <<>>),
      SearchResponse("other", <<>>),
      SearchResponse("null", <<>>),
      SearchResponse("records", <<DsA, DsB>>),
      SearchResponse("nested", <<DsC, DsE, DsF>>),
      SearchResponse("records", <<DsB, DsD>>) }

Questions ==
    { <<"Rainfall", " ", "in", " ", "Odisha">>,
      <<"population">>,
      <<"rainfall", " ", "temperature", " ", "weather", " ", "monsoon", " ", "crop",
        " ", "yield">> }

KeywordResponses ==
    { LLMFails,
      LLMResponse(TRUE, <<"rainfall">>),
      LLMResponse(TRUE, <<" ", "rainfall", ",", " ", "crop", " ", "yield", " ">>),
      LLMResponse(TRUE, <<"rainfall", ",", "monsoon", ",", "crop", ",", "yield", ",",
                          "harvest">>) }

CategoryResponses ==
    { LLMFails,
      LLMResponse(TRUE, <<"agriculture">>),
      LLMResponse(TRUE, <<" ", "Climate", " ">>),
      LLMResponse(TRUE, <<"other">>),
      LLMResponse(TRUE, <<"climate", " ", "data">>) }

RelevanceResponses ==
    { LLMFails,
      LLMResponse(TRUE, <<"NONE">>),
      LLMResponse(TRUE, <<"none">>),
      LLMResponse(TRUE, <<"d1", ",", " ", "d9">>),
      LLMResponse(TRUE, <<" ", "d2">>) }

\* The catalog the table holds when the program starts: the table is kept
\* in a database file, so it is empty or as an earlier session left it.
SeedCatalogs ==
    { <<>>,
      << Row("d1", "seed", "json", "climate"), Row("s9", "seed", "csv", "other") >> }

\* The loop that registers unique_datasets[:10] (dataset_discovery.py:150-155):
\* the metadata built, and the table after add_dataset of each.
Converted(datasets, category) ==
    LET metas == [j \in 1..Len(datasets) |-> ConvertToMetadata(datasets[j], category)]
    IN SelectSeq(metas, LAMBDA m : m # NoMetadata)

RECURSIVE AddAll(_, _)
AddAll(table, metas) ==
    IF metas = <<>> THEN table ELSE AddAll(AddDataset(table, Head(metas)), Tail(metas))

\* The discovery call ends with an exception: extend() of a value that is
\* no list (dataset_discovery.py:136, 254).
DiscoveryRaises ==
    /\ dpc' = "idle"
    /\ dloc' = IdleLoc
    /\ dret' = DiscoveryResult(dret.calls, "raised", <<>>)
    /\ UNCHANGED catalog

\* discover_all_datasets up to its first search.
StartBootstrap ==
    /\ dpc = "idle"
    /\ dret.calls < MaxRuns
    /\ dpc' = "bootstrap_search"
    /\ dloc' = [IdleLoc EXCEPT !.op = "bootstrap", !.cat = 1, !.i = 1]
    /\ dlog' = StartLog("bootstrap", catalog)
    /\ dret' = DiscoveryResult(dret.calls + 1, "running", <<>>)
    /\ UNCHANGED <<cvars, catalog, fvars, avars, pvars>>

\* One search of discover_all_datasets is answered; the last search of a
\* category is followed by the de-duplication, the cap and the registration
\* (dataset_discovery.py:134-157).
BootstrapSearch(response) ==
    /\ dpc = "bootstrap_search"
    /\ UNCHANGED <<cvars, fvars, avars, pvars>>
    /\ \E category \in {Categories[dloc.cat]} :
       \E terms \in {Take(SearchTermsOf(category), NumTerms)} :
       \E datasets \in {SearchDatasets(response)} :
          /\ dlog' = [dlog EXCEPT
                        !.searches = Append(@, terms[dloc.i]),
                        !.failed = IF response.kind \in {"records", "nested"} THEN @
                                   ELSE @ \cup {"search"},
                        !.found = [@ EXCEPT ![category] = @ \o datasets.records],
                        !.discovered =
                            IF datasets.is_list /\ dloc.i = Len(terms)
                            THEN [@ EXCEPT ![category] =
                                    Converted(Take(Unique(dloc.all \o datasets.records), BootstrapCap),
                                              category)]
                            ELSE @]
          /\ IF ~datasets.is_list THEN DiscoveryRaises
             ELSE IF dloc.i < Len(terms)
             THEN /\ dloc' = [dloc EXCEPT !.i = @ + 1, !.all = @ \o datasets.records]
                  /\ UNCHANGED <<catalog, dpc, dret>>
             ELSE /\ catalog' = AddAll(catalog,
                                       Converted(Take(Unique(dloc.all \o datasets.records), BootstrapCap),
                                                 category))
                  /\ IF dloc.cat < Len(Categories)
                     THEN /\ dloc' = [dloc EXCEPT !.cat = @ + 1, !.i = 1, !.all = <<>>]
                          /\ UNCHANGED <<dpc, dret>>
                     ELSE /\ dpc' = "idle"
                          /\ dloc' = IdleLoc
                          /\ dret' = DiscoveryResult(dret.calls, "discovered", <<>>)

\* Mutant: the catalog is not consulted.
NextCandidateNoSkip(table, unique, k) == k

\* Index of the first candidate from k on that the catalog does not hold
\* (dataset_discovery.py:269-276), or Len(unique) + 1.
NextCandidate(table, unique, k) ==
    LET open == {j \in k..Len(unique) : ~InCatalog(table, ExtractResourceId(unique[j]))}
    IN IF open = {} THEN Len(unique) + 1 ELSE CHOOSE j \in open : \A m \in open : j <= m

\* Identifiers of the candidates k..j-1, which the loop skips as present.
SkippedIds(unique, k, j) == [m \in 1..(j - k) |-> ExtractResourceId(unique[k + m - 1])]

\* discover_and_add_datasets_for_question up to its keyword model call.
StartQuestion(question) ==
    /\ dpc = "idle"
    /\ dret.calls < MaxRuns
    /\ dpc' = "keywords"
    /\ dloc' = [IdleLoc EXCEPT !.op = "question", !.question = question]
    /\ dlog' = [StartLog("question", catalog) EXCEPT !.question = question]
    /\ dret' = DiscoveryResult(dret.calls + 1, "running", <<>>)
    /\ UNCHANGED <<cvars, catalog, fvars, avars, pvars>>

\* The keyword model call came back (dataset_discovery.py:247, 318-326).
KeywordsAnswered(response) ==
    /\ dpc = "keywords"
    /\ UNCHANGED <<cvars, catalog, dret, fvars, avars, pvars>>
    /\ \E keywords \in {ExtractSearchKeywords(dloc.question, response)} :
          /\ dlog' = [dlog EXCEPT !.keyword_calls = @ + 1,
                                  !.keywords = keywords,
                                  !.failed = IF response.ok THEN @ ELSE @ \cup {"keywords"}]
          /\ dloc' = [dloc EXCEPT !.keywords = keywords, !.i = 1, !.k = 1]
          /\ dpc' = IF keywords = <<>> THEN "relevance" ELSE "search"

\* One keyword search is answered; after the last one the candidates are
\* de-duplicated and the loop runs up to the first candidate that needs a
\* classification call (dataset_discovery.py:252-276).
QuestionSearch(response) ==
    /\ dpc = "search"
    /\ UNCHANGED <<cvars, catalog, fvars, avars, pvars>>
    /\ \E datasets \in {SearchDatasets(response)} :
       \E unique \in {Unique(dloc.all \o datasets.records)} :
       \E j \in {NextCandidate(catalog, unique, 1)} :
          /\ dlog' = [dlog EXCEPT
                        !.searches = Append(@, dloc.keywords[dloc.i]),
                        !.failed = IF response.kind \in {"records", "nested"} THEN @
                                   ELSE @ \cup {"search"},
                        !.candidates = IF datasets.is_list /\ dloc.i = Len(dloc.keywords)
                                       THEN unique ELSE @,
                        !.skipped = IF datasets.is_list /\ dloc.i = Len(dloc.keywords)
                                    THEN SkippedIds(unique, 1, j) ELSE @]
          /\ IF ~datasets.is_list THEN DiscoveryRaises
             ELSE IF dloc.i < Len(dloc.keywords)
             THEN /\ dloc' = [dloc EXCEPT !.i = @ + 1, !.all = @ \o datasets.records]
                  /\ UNCHANGED <<dpc, dret>>
             ELSE /\ dloc' = [dloc EXCEPT !.all = <<>>, !.unique = unique, !.k = j]
                  /\ dpc' = IF j <= Len(unique) THEN "classify" ELSE "relevance"
                  /\ UNCHANGED dret

\* The classification call for candidate k came back; the candidate is
\* registered or dropped and the loop runs on to the next candidate that
\* needs a call (dataset_discovery.py:279-289, 104-115).
ClassifyAnswered(response) ==
    /\ dpc = "classify"
    /\ UNCHANGED <<cvars, dret, fvars, avars, pvars>>
    /\ \E dataset \in {dloc.unique[dloc.k]} :
       \E category \in {CategorizeDataset(response)} :
       \E metadata \in {IF category = "none" THEN NoMetadata
                        ELSE ConvertToMetadata(dataset, category)} :
       \E table \in {IF metadata = NoMetadata THEN catalog ELSE AddDataset(catalog, metadata)} :
       \E j \in {NextCandidate(table, dloc.unique, dloc.k + 1)} :
          /\ catalog' = table
          /\ dlog' = [dlog EXCEPT
                        !.classified = Append(@, ExtractResourceId(dataset)),
                        !.answers = Append(@, response),
                        !.registered = IF metadata = NoMetadata THEN @ ELSE Append(@, metadata),
                        !.skipped = @ \o SkippedIds(dloc.unique, dloc.k + 1, j),
                        !.failed = IF response.ok THEN @ ELSE @ \cup {"classify"}]
          /\ dloc' = [dloc EXCEPT !.k = j]
          /\ dpc' = IF j <= Len(dloc.unique) THEN "classify" ELSE "relevance"

\* The relevance call came back and the call returns
\* (dataset_discovery.py:294, 358-395).
RelevanceAnswered(response) ==
    /\ dpc = "relevance"
    /\ UNCHANGED <<cvars, catalog, fvars, avars, pvars>>
    /\ dlog' = [dlog EXCEPT
                  !.relevance_calls = @ + 1,
                  !.listed = ListDatasets(catalog, "climate") \o ListDatasets(catalog, "agriculture"),
                  !.answer = response,
                  !.failed = IF response.ok THEN @ ELSE @ \cup {"relevance"}]
    /\ dret' = DiscoveryResult(dret.calls, "ids", GetRelevantDatasets(catalog, response))
    /\ dpc' = "idle"
    /\ dloc' = IdleLoc

InitDiscovery ==
    /\ catalog \in SeedCatalogs
    /\ DiscoveryIdle
    /\ AnswerIdle
    /\ PrepareIdle
    /\ CallersIdle
    /\ remote = [rid \in ResourceIds |-> <<>>]
    /\ cache = [rid \in ResourceIds |-> NoFile]
    /\ pc = "idle"
    /\ call = IdleCall
    /\ hist = NoHist
    /\ ret = NoResult
    /\ completed = {}
    /\ writes = [rid \in ResourceIds |-> 0]
    /\ lastHit = [rid \in ResourceIds |-> NoFile]
    /\ tin = <<>>
    /\ tout = NoTout

NextDiscovery ==
    \/ StartBootstrap
    \/ \E response \in SearchResponses : BootstrapSearch(response)
    \/ \E question \in Questions : StartQuestion(question)
    \/ \E response \in KeywordResponses : KeywordsAnswered(response)
    \/ \E response \in SearchResponses : QuestionSearch(response)
    \/ \E response \in CategoryResponses : ClassifyAnswered(response)
    \/ \E response \in RelevanceResponses : RelevanceAnswered(response)

SpecDiscovery == InitDiscovery /\ [][NextDiscovery]_vars

\* ---------------------------------------------------------- answer_question
\* Calls of answer_question the model follows.
MaxAnswers == 1

\* A table of n rows with the one column year, holding 1..n.
Years(n) == Frame(<< <<"year">> >>, << [r \in 1..n |-> Num(r)] >>, n)

\* What _fetch_raw_data returns for a dataset (app_direct.py:143-185): None
\* when the fetch or the normalization raised (why says which), or the table.
Fetched(why, data) == [why |-> why, data |-> data]
FetchOutcomes ==
    { Fetched("fetch", NoneValue),
      Fetched("normalize", NoneValue),
      Fetched("ok", Table(Frame(<<>>, <<>>, 1))),
      Fetched("ok", Table(Years(FilterThreshold))),
      Fetched("ok", Table(Years(FilterThreshold + 1))) }

\* Answers of the filter model call.
FilterResponses ==
    { LLMFails,
      LLMResponse(TRUE, <<"df">>),
      LLMResponse(TRUE, <<"df", " ", "# no filter">>),
      LLMResponse(TRUE, <<FENCE, "python", " ", "df[df['year'] > 50]", " ", FENCE>>),
      LLMResponse(TRUE, <<"df[">>),
      LLMResponse(TRUE, <<"len(df)">>),
      LLMResponse(TRUE, <<" ", "df['year']">>) }

\* Answers of the final model call.
FinalResponses == { LLMFails, LLMResponse(TRUE, <<"narrative">>) }

\* The question asked and the answers discovery gets while answer_question
\* runs it.
AnswerQuestions == { <<"Rainfall", " ", "in", " ", "Odisha">> }
AnswerKeywordResponses == { LLMFails, LLMResponse(TRUE, <<"rainfall">>) }
AnswerSearchResponses ==
    { SearchResponse("raises", <<>>),
      SearchResponse("null", <<>>),
      SearchResponse("records", <<DsB, DsD>>) }
AnswerCategoryResponses == { LLMFails, LLMResponse(TRUE, <<"agriculture">>) }
AnswerRelevanceResponses ==
    { LLMFails,
      LLMResponse(TRUE, <<"NONE">>),
      LLMResponse(TRUE, <<"d1", ",", " ", "d9">>) }

\* answer_question returns or raises; calls is the number of the call.
AnswerEnds(calls, kind, datasets_used) ==
    /\ apc' = "idle"
    /\ aloc' = IdleAnswer
    /\ aret' = AnswerResult(calls, kind, datasets_used)

\* The choice of the datasets and the early return when there is none
\* (app_direct.py:72-93).
SelectDatasets(calls, question, relevant_dataset_ids) ==
    \E dataset_list \in {DatasetList(catalog, relevant_dataset_ids)} :
       IF dataset_list = <<>> THEN AnswerEnds(calls, "no_datasets", <<>>)
       ELSE /\ apc' = "fetch"
            /\ aloc' = [IdleAnswer EXCEPT !.question = question,
                                          !.discovered_new = relevant_dataset_ids # <<>>,
                                          !.dataset_list = dataset_list,
                                          !.k = 1]
            /\ aret' = AnswerResult(calls, "running", <<>>)

\* answer_question up to the keyword model call of discovery, or without
\* discovery up to its first fetch (app_direct.py:56-93).
StartAnswer(question, auto_discover) ==
    /\ apc = "idle"
    /\ dpc = "idle"
    /\ aret.calls < MaxAnswers
    /\ UNCHANGED <<cvars, catalog, fvars, pvars>>
    /\ alog' = StartAnswerLog(question, auto_discover)
    /\ IF auto_discover
       THEN /\ dpc' = "keywords"
            /\ dloc' = [IdleLoc EXCEPT !.op = "question", !.question = question]
            /\ dlog' = [StartLog("question", catalog) EXCEPT !.question = question]
            /\ dret' = DiscoveryResult(dret.calls + 1, "running", <<>>)
            /\ apc' = "discover"
            /\ aloc' = [IdleAnswer EXCEPT !.question = question]
            /\ aret' = AnswerResult(aret.calls + 1, "running", <<>>)
       ELSE /\ UNCHANGED <<dpc, dloc, dlog, dret>>
            /\ SelectDatasets(aret.calls + 1, question, <<>>)

\* Discovery has returned to answer_question, or raised (app_direct.py:63-93,
\* 139-141).
DiscoveryReturned ==
    /\ apc = "discover"
    /\ dpc = "idle"
    /\ UNCHANGED <<cvars, dvars, fvars, pvars>>
    /\ IF dret.kind = "raised"
       THEN /\ AnswerEnds(aret.calls, "raised", <<>>)
            /\ UNCHANGED alog
       ELSE /\ alog' = [alog EXCEPT !.relevant = dret.ids]
            /\ SelectDatasets(aret.calls, aloc.question, dret.ids)

\* interpret_and_answer from dataset j on, up to the next model call: the
\* datasets that are not filtered are summarized (data_interpreter.py:155-176).
Interpret(loc, j) ==
    \E j2 \in {NextLarge(loc.datasets_with_data, j)} :
       /\ aloc' = [loc EXCEPT !.j = j2,
                              !.dataset_summaries =
                                  @ \o Summaries(loc.datasets_with_data, j, j2)]
       /\ apc' = IF j2 <= Len(loc.datasets_with_data) THEN "filter" ELSE "final"
       /\ UNCHANGED aret

\* _fetch_raw_data of dataset k came back; after the last dataset the call
\* returns early or goes on to interpret_and_answer (app_direct.py:97-129).
FetchAnswered(outcome) ==
    /\ apc = "fetch"
    /\ UNCHANGED <<cvars, dvars, fvars, pvars>>
    /\ alog' = [alog EXCEPT !.fetched = Append(@, outcome)]
    /\ \E dataset \in {aloc.dataset_list[aloc.k]} :
       \E loaded \in {IF outcome.data.type = "DataFrame" /\ ~IsEmpty(outcome.data.df)
                       THEN Append(aloc.datasets_with_data, WithData(dataset, outcome.data))
                       ELSE aloc.datasets_with_data} :
          IF aloc.k < Len(aloc.dataset_list)
          THEN /\ aloc' = [aloc EXCEPT !.k = @ + 1, !.datasets_with_data = loaded]
               /\ UNCHANGED <<apc, aret>>
          ELSE IF loaded = <<>> THEN AnswerEnds(aret.calls, "failed_fetch", <<>>)
          ELSE Interpret([aloc EXCEPT !.datasets_with_data = loaded], 1)

\* The filter model call for dataset j came back; the value it leaves is
\* summarized (data_interpreter.py:162-170).
FilterAnswered(response) ==
    /\ apc = "filter"
    /\ UNCHANGED <<cvars, dvars, fvars, pvars>>
    /\ \E ds \in {aloc.datasets_with_data[aloc.j]} :
       \E value \in {FilterDatasetForQuery(ds.data.df, response)} :
       \E summary \in {PrepareDatasetSummary(ds.name, value, MaxRowsPerDataset)} :
          /\ alog' = [alog EXCEPT
                        !.filter_calls = Append(@, [name |-> ds.name, response |-> response]),
                        !.filtered = Append(@, value)]
          /\ IF summary.raised THEN AnswerEnds(aret.calls, "raised", <<>>)
             ELSE Interpret([aloc EXCEPT !.dataset_summaries = Append(@, summary)], aloc.j + 1)

\* Mutant: a failed final call is made once more.
FinalAnsweredRetryOnce(response) ==
    /\ apc = "final"
    /\ UNCHANGED <<cvars, dvars, fvars, pvars>>
    /\ alog' = [alog EXCEPT !.final_calls = @ + 1, !.sent = aloc.dataset_summaries,
                            !.final = response]
    /\ IF response.ok
       THEN AnswerEnds(aret.calls, "answer", [m \in 1..Len(aloc.datasets_with_data) |->
                                                aloc.datasets_with_data[m].name])
       ELSE IF alog.final_calls = 0 THEN UNCHANGED <<apc, aloc, aret>>
       ELSE AnswerEnds(aret.calls, "raised", <<>>)

\* The final model call came back (data_interpreter.py:178-192,
\* app_direct.py:131-141).
FinalAnswered(response) ==
    /\ apc = "final"
    /\ UNCHANGED <<cvars, dvars, fvars, pvars>>
    /\ alog' = [alog EXCEPT !.final_calls = @ + 1, !.sent = aloc.dataset_summaries,
                            !.final = response]
    /\ IF response.ok
       THEN AnswerEnds(aret.calls, "answer", [m \in 1..Len(aloc.datasets_with_data) |->
                                                aloc.datasets_with_data[m].name])
       ELSE AnswerEnds(aret.calls, "raised", <<>>)

InitAnswer == InitDiscovery

NextAnswer ==
    \/ \E question \in AnswerQuestions : \E auto_discover \in BOOLEAN :
          StartAnswer(question, auto_discover)
    \/ \E response \in AnswerKeywordResponses : KeywordsAnswered(response)
    \/ \E response \in AnswerSearchResponses : QuestionSearch(response)
    \/ \E response \in AnswerCategoryResponses : ClassifyAnswered(response)
    \/ \E response \in AnswerRelevanceResponses : RelevanceAnswered(response)
    \/ DiscoveryReturned
    \/ \E outcome \in FetchOutcomes : FetchAnswered(outcome)
    \/ \E response \in FilterResponses : FilterAnswered(response)
    \/ \E response \in FinalResponses : FinalAnswered(response)

SpecAnswer == InitAnswer /\ [][NextAnswer]_vars

\* -------------------------------------------------------- the table preparer
\* Largest table and largest max_rows handed to the preparer, besides the
\* sizes around the display and filter limits.
MaxTableRows == 12

TableSizes == (0..MaxTableRows) \cup {DisplayMaxRows, DisplayMaxRows + 1,
                                      FilterThreshold, FilterThreshold + 1}
RowLimits == (0..(MaxTableRows + 1)) \cup {MaxRowsPerDataset}

\* Answers of the filter model call, with two more ways of asking for no
\* filter.
PrepareResponses ==
    FilterResponses \cup { LLMResponse(TRUE, <<"no filter">>),
                           LLMResponse(TRUE, <<FENCE, "df", FENCE>>) }

\* The filter step of interpret_and_answer for one dataset
\* (data_interpreter.py:157-162).
PrepareFilter ==
    /\ pout.stage = "input"
    /\ UNCHANGED <<cvars, dvars, fvars, avars, pin>>
    /\ \E called \in {pin.auto_filter /\ pin.data.type # "NoneType"
                                        /\ pin.data.df.nrows > FilterThreshold} :
          pout' = Prepared("filtered", called,
                           IF called THEN FilterDatasetForQuery(pin.data.df, pin.response)
                           ELSE pin.data,
                           NoSummary)

\* The summary of the dataset (data_interpreter.py:164-170).
PrepareSummarize ==
    /\ pout.stage = "filtered"
    /\ UNCHANGED <<cvars, dvars, fvars, avars, pin>>
    /\ pout' = [pout EXCEPT !.stage = "summarized",
                            !.summary = PrepareDatasetSummary("name", pout.value, pin.max_rows)]

InitPrepare ==
    /\ \E n \in TableSizes \cup {-1} :
       \E auto_filter \in BOOLEAN :
       \E max_rows \in RowLimits :
       \E response \in PrepareResponses :
          pin = PrepareInput(IF n < 0 THEN NoneValue ELSE Table(Years(n)),
                             auto_filter, max_rows, response)
    /\ pout = NoPrepared
    /\ catalog = <<>>
    /\ DiscoveryIdle
    /\ AnswerIdle
    /\ remote = [rid \in ResourceIds |-> <<>>]
    /\ cache = [rid \in ResourceIds |-> NoFile]
    /\ pc = "idle"
    /\ call = IdleCall
    /\ hist = NoHist
    /\ ret = NoResult
    /\ completed = {}
    /\ writes = [rid \in ResourceIds |-> 0]
    /\ lastHit = [rid \in ResourceIds |-> NoFile]
    /\ tin = <<>>
    /\ tout = NoTout
    /\ CallersIdle

NextPrepare ==
    \/ PrepareFilter
    \/ PrepareSummarize

SpecPrepare == InitPrepare /\ [][NextPrepare]_vars

\* ------------------------------------- concurrent callers of read_and_cache
\* Several callers (sessions of the application) run JSONAdapter.read_and_cache
\* for one identifier against the one cache directory. A step is one access
\* to the file system: the existence test, the read, and the two ends of
\* the write, which creates the file before its content is complete.

\* Calls of read_and_cache per caller.
MaxCallsPerCaller == 1

\* A file that is being written, or that overlapping writes left behind:
\* it exists, and pd.read_parquet raises on it.
UnreadableFile == [columns |-> <<>>, values |-> <<>>, nrows |-> -2]

CallerReturn(kind, path, df) == [kind |-> kind, path |-> path, df |-> df]

\* The table read_and_cache builds before it writes (format_adapters.py:59-69).
JSONBuild(rid, data, emptyOk) ==
    IF FirstAppearance(data) = <<>> /\ ~emptyOk THEN Raised
    ELSE LET parsed == ParseTabSeparatedColumns(NormalizeColumns(DataFrame(data)))
         IN IF ~parsed.ok THEN Raised ELSE Ok(AddSourceId(parsed.df, rid))

\* Mutant: the file is created only when there is none (exclusive create).
CompletedWriteKeepsExisting(file, written) == IF file = NoFile THEN written ELSE file

\* The file at the cache path after a to_parquet that overlapped no other
\* write: the path is opened for writing and whatever was there is replaced.
CompletedWrite(file, written) == written

\* The callers whose to_parquet has created the file and not yet closed it.
Writing == {c \in CallerIds : callers[c].pc = "writing"}

\* What overlapping writes can leave at the path when the last of them
\* ends: the table of one of them, or a file no reader can parse.
ClashOutcomes ==
    {ToParquet(callers[c].df).df : c \in {x \in CallerIds : callers[x].clashed}}
        \cup {UnreadableFile}

\* A caller enters read_and_cache(resource_id, data).
CallerStarts(c, data, emptyOk) ==
    /\ callers[c].pc = "idle"
    /\ callers[c].calls < MaxCallsPerCaller
    /\ callers' = [callers EXCEPT ![c] = [@ EXCEPT !.pc = "exists", !.calls = @ + 1,
                                                  !.data = data, !.emptyOk = emptyOk,
                                                  !.ret = NoReturn]]
    /\ UNCHANGED <<writers, pvars, avars, dvars, fvars>>

\* cache_path.exists() (format_adapters.py:55); on a miss the caller builds
\* its table from its own records (59-69), which touches nothing shared.
CallerChecks(c) ==
    /\ callers[c].pc = "exists"
    /\ \E built \in {JSONBuild(AdapterRid, callers[c].data, callers[c].emptyOk)} :
          callers' = [callers EXCEPT ![c] =
                        IF cache[AdapterRid] # NoFile THEN [@ EXCEPT !.pc = "read"]
                        ELSE IF ~built.ok
                        THEN [@ EXCEPT !.pc = "idle", !.ret = CallerReturn("error", "miss", EmptyFrame)]
                        ELSE [@ EXCEPT !.pc = "write", !.df = built.df]]
    /\ UNCHANGED <<writers, pvars, avars, dvars, fvars>>

\* return pd.read_parquet(cache_path) (format_adapters.py:57)
CallerReads(c) ==
    /\ callers[c].pc = "read"
    /\ IF cache[AdapterRid] = UnreadableFile
       THEN /\ callers' = [callers EXCEPT ![c] =
                             [@ EXCEPT !.pc = "idle", !.ret = CallerReturn("error", "hit", EmptyFrame)]]
            /\ UNCHANGED lastHit
       ELSE /\ callers' = [callers EXCEPT ![c] =
                             [@ EXCEPT !.pc = "idle",
                                       !.ret = CallerReturn("df", "hit", ReadParquet(cache[AdapterRid]))]]
            /\ lastHit' = [lastHit EXCEPT ![AdapterRid] = ReadParquet(cache[AdapterRid])]
    /\ UNCHANGED <<writers, pvars, avars, dvars, remote, cache, pc, call, hist, ret, completed,
                   writes, tin, tout>>

\* df.to_parquet(cache_path, index=False) up to the creation of the file
\* (format_adapters.py:72); the conversion raises before any file exists.
CallerWriteBegins(c) ==
    /\ callers[c].pc = "write"
    /\ IF ~ToParquet(callers[c].df).ok
       THEN /\ callers' = [callers EXCEPT ![c] =
                             [@ EXCEPT !.pc = "idle", !.ret = CallerReturn("error", "miss", EmptyFrame)]]
            /\ UNCHANGED cache
       ELSE /\ callers' = [x \in CallerIds |->
                             IF x = c THEN [callers[x] EXCEPT !.pc = "writing",
                                                              !.clashed = Writing # {}]
                             ELSE IF x \in Writing THEN [callers[x] EXCEPT !.clashed = TRUE]
                             ELSE callers[x]]
            /\ cache' = [cache EXCEPT ![AdapterRid] = UnreadableFile]
    /\ UNCHANGED <<writers, pvars, avars, dvars, remote, pc, call, hist, ret, completed,
                   writes, lastHit, tin, tout>>

\* The write ends and read_and_cache returns the table it built
\* (format_adapters.py:72-75).
CallerWriteEnds(c) ==
    /\ callers[c].pc = "writing"
    /\ callers' = [callers EXCEPT ![c] =
                     [@ EXCEPT !.pc = "idle", !.ret = CallerReturn("df", "miss", callers[c].df)]]
    /\ writers' = Append(writers, c)
    /\ writes' = [writes EXCEPT ![AdapterRid] = @ + 1]
    /\ \E file \in (IF Writing # {c} THEN {UnreadableFile}
                     ELSE IF callers[c].clashed THEN ClashOutcomes
                     ELSE {CompletedWrite(cache[AdapterRid], ToParquet(callers[c].df).df)}) :
          cache' = [cache EXCEPT ![AdapterRid] = file]
    /\ UNCHANGED <<pvars, avars, dvars, remote, pc, call, hist, ret, completed, lastHit,
                   tin, tout>>

\* The identifier is not cached and no caller has started.
InitCallers ==
    /\ CallersIdle
    /\ cache = [rid \in ResourceIds |-> NoFile]
    /\ writes = [rid \in ResourceIds |-> 0]
    /\ lastHit = [rid \in ResourceIds |-> NoFile]
    /\ remote = [rid \in ResourceIds |-> <<>>]
    /\ pc = "idle"
    /\ call = IdleCall
    /\ hist = NoHist
    /\ ret = NoResult
    /\ completed = {}
    /\ tin = <<>>
    /\ tout = NoTout
    /\ catalog = <<>>
    /\ DiscoveryIdle
    /\ AnswerIdle
    /\ PrepareIdle

NextCallers ==
    \/ \E c \in CallerIds, data \in ApiPayloads \cup {OtherPayload} :
          \E emptyOk \in EmptyChoices(data) : CallerStarts(c, data, emptyOk)
    \/ \E c \in CallerIds : CallerChecks(c)
    \/ \E c \in CallerIds : CallerReads(c)
    \/ \E c \in CallerIds : CallerWriteBegins(c)
    \/ \E c \in CallerIds : CallerWriteEnds(c)

SpecCallers == InitCallers /\ [][NextCallers]_vars

\* =================================================================== claims
\* The records of the first n pages of a resource at the given page size.
FirstPages(records, limit, n) == SubSeq(records, 1, Min(n * limit, Len(records)))

\* A fetch_all_pages call has returned its list to its caller.
Returned == pc = "idle" /\ hist.end \in {"records", "nokey"}

\* C1: fetch_all requests the pages at offsets 0, page_size, 2*page_size, ...
\* in that order, makes no request after a page that is empty or shorter than
\* page_size, and returns the concatenation of the received pages in page
\* order; when every request was answered with records, that is every record
\* the source holds, after (N div page_size) + 1 requests.
C1_Pagination ==
    /\ \A i \in 1..Len(hist.requests) : hist.requests[i] = (i - 1) * hist.limit
    /\ \A i \in 1..Len(hist.received) :
          i < Len(hist.requests) => hist.received[i] = hist.limit
    /\ Returned =>
          /\ ret.records = FirstPages(remote[ret.rid], hist.limit, Len(hist.received))
          /\ Len(ret.records) = Len(hist.received) * hist.limit
                                  - (IF hist.received = <<>> THEN 0
                                     ELSE hist.limit - hist.received[Len(hist.received)])
    /\ (pc = "idle" /\ hist.end = "records") =>
          /\ ret.records = remote[ret.rid]
          /\ Len(hist.requests) = (Len(remote[ret.rid]) \div hist.limit) + 1

\* Pages of sizes 2, 2, 1 at page size 2: 5 records after exactly 3 requests.
C1_Witness ==
    /\ pc = "idle"
    /\ hist.end = "records"
    /\ hist.limit = 2
    /\ hist.received = <<2, 2, 1>>
    /\ hist.requests = <<0, 2, 4>>
    /\ Len(ret.records) = 5

\* C2: a page is attempted at most 3 times; when every attempt fails the
\* source has been called exactly 3 times for that page and the error is
\* raised; no offset is requested as a page twice.
C2_RetryBound ==
    /\ pc = "fetch_resource" => call.attempt < 3
    /\ ret.attempts <= 3
    /\ hist.end = "exhausted" =>
          /\ ret.exhausted
          /\ ret.attempts = 3
          /\ ret.kind = (IF ret.via = "direct" THEN "error" ELSE "none")
    /\ NoDuplicates(hist.requests)

C2_Witness ==
    /\ hist.end = "exhausted"
    /\ ret.via = "direct"
    /\ ret.kind = "error"
    /\ ret.attempts = 3
    /\ Len(hist.requests) = 2

\* C3: a response without "records" ends pagination without an error: the
\* call returns what the earlier pages gave (nothing when it is the first
\* page) and no further page is requested.
C3_MissingRecordsKey ==
    hist.end = "nokey" =>
        /\ pc = "idle"
        /\ ~ret.exhausted
        /\ ret.kind # "error"
        /\ Len(hist.requests) = Len(hist.received) + 1
        /\ ret.records = FirstPages(remote[ret.rid], hist.limit, Len(hist.received))
        /\ hist.received = <<>> => ret.records = <<>>

C3_Witness ==
    /\ hist.end = "nokey"
    /\ ret.via = "direct"
    /\ ret.kind = "records"
    /\ Len(hist.received) = 2
    /\ Len(ret.records) = 2

\* C5 (as claimed): a _fetch_raw_data call that found a cache entry for its
\* resource when it started issues no remote page request.
C5_NoRequestWhenCached ==
    (hist.via = "app" /\ hist.hadCache) => hist.requests = <<>>

\* C6: a cache entry exists only for a resource whose fetch_all_pages once
\* returned normally; when a page fails after its last attempt the error
\* leaves fetch_all_pages with no record list, the dataset is skipped and
\* nothing is written to the cache.
C6_CacheMeansFetchComplete ==
    /\ \A rid \in ResourceIds : cache[rid] # NoFile => rid \in completed
    /\ hist.end = "exhausted" =>
          /\ ret.exhausted
          /\ ret.records = <<>>
          /\ ret.df = EmptyFrame
          /\ ret.kind \in {"none", "error"}
          /\ ~ret.wrote
          /\ ret.via = "app" => ret.kind = "none"

\* A later page fails for good after an earlier page arrived, and the
\* resource has no cache entry.
C6_Witness ==
    /\ hist.end = "exhausted"
    /\ ret.via = "app"
    /\ Len(hist.received) >= 1
    /\ cache[ret.rid] = NoFile
    /\ ret.kind = "none"

C7_CacheEntryWrittenOnce ==
    [][ \A rid \in ResourceIds :
          /\ cache[rid] # NoFile => cache'[rid] = cache[rid]
          /\ writes'[rid] <= 1 ]_vars

\* The orchestrator went through a resource whose entry an adapter call had
\* written from another payload, and the entry is as it was.
C7_Witness ==
    \E rid \in ResourceIds :
        /\ writes[rid] = 1
        /\ ret.rid = rid
        /\ ret.via = "app"
        /\ ret.hit
        /\ ret.records # <<>>
        /\ ToParquet(JSONMiss(rid, ret.records, TRUE).df).df # cache[rid]

\* Every column labelled source_id holds the identifier in every row, and
\* there is such a column.
HasProvenance(df, rid) ==
    /\ \E c \in 1..Len(df.columns) : df.columns[c] = SOURCE_ID
    /\ \A c \in 1..Len(df.columns) :
          df.columns[c] = SOURCE_ID =>
             /\ Len(df.values[c]) = df.nrows
             /\ \A r \in 1..df.nrows : df.values[c][r] = Str(<<rid>>)

\* C8: every table read_and_cache returns or caches for identifier X has a
\* source_id column holding X, non-null, in every row: on a cache miss, on a
\* cache hit, and when the payload had a column named source_id itself.
C8_ProvenanceColumn ==
    /\ ret.kind = "df" => HasProvenance(ret.df, ret.rid)
    /\ \A rid \in ResourceIds :
          cache[rid] # NoFile => HasProvenance(ReadParquet(cache[rid]), rid)

\* The second call returns the table cached from a payload that had its own
\* source_id column.
C8_Witness ==
    /\ tout.calls = 2
    /\ ret.hit
    /\ ret.df.nrows = 2
    /\ \E r \in 1..Len(tin) : \E i \in 1..Len(tin[r]) :
          NormalizeName(tin[r][i][1]) = SOURCE_ID /\ tin[r][i][2] = Str(<<"x", TAB, "y">>)

\* --- delimiter-packed columns, as the claims word them
\* The first non-null value of the column is text containing a tab.
TabColumn(df, i) ==
    LET nn == {r \in 1..df.nrows : ~IsNull(df.values[i][r])}
    IN /\ nn # {}
       /\ LET first == df.values[i][CHOOSE r \in nn : \A q \in nn : r <= q]
          IN IsStr(first) /\ \E k \in 1..Len(first.s) : first.s[k] = TAB

Least(S) == IF S = {} THEN 0 ELSE CHOOSE i \in S : \A j \in S : i <= j

FirstTabColumn(df) == Least({i \in 1..Len(df.columns) : TabColumn(df, i)})
FirstQualifyingColumn(df) ==
    Least({i \in 1..Len(df.columns) : df.columns[i] # SOURCE_ID /\ TabColumn(df, i)})

Fields(c) == IF IsStr(c) THEN Split(c.s, TAB) ELSE <<>>
FieldCount(df, i) ==
    LET lens == {Len(Fields(df.values[i][r])) : r \in 1..df.nrows}
    IN CHOOSE w \in lens : \A v \in lens : v <= w

\* out is field j of the packed value c (missing when c has no such field).
IsField(out, c, j) ==
    IF IsStr(c) /\ j <= Len(Fields(c)) THEN out = Str(Fields(c)[j]) ELSE IsNull(out)

\* The frame holds, side by side and in order, one column per name, column j
\* holding field j of every value of packed.
ExpandedAs(df, names, packed) ==
    \E p \in 0..(Len(df.columns) - Len(names)) :
        \A j \in 1..Len(names) :
            /\ df.columns[p + j] = names[j]
            /\ \A r \in 1..df.nrows : IsField(df.values[p + j][r], packed[r], j)

\* The names the fragments give: a blank fragment is col_<position>, a name
\* that repeats an earlier one gets _<number of earlier occurrences>.
FragmentNames(frags) ==
    LET Base(m) == IF frags[m] = <<>> THEN <<"col", US>> \o IntToStr(m - 1) ELSE frags[m]
        Earlier(j) == Cardinality({m \in 1..(j - 1) : Base(m) = Base(j)})
    IN [j \in 1..Len(frags) |->
          IF Earlier(j) = 0 THEN Base(j) ELSE Base(j) \o <<US>> \o IntToStr(Earlier(j))]

\* _parse_tab_separated_columns returned a frame for the first payload.
Parsed == tout.calls >= 1 /\ tout.after.ok

\* C9 (as claimed): when the first column whose first non-null value is text
\* with a tab has as many underscore fragments as the rows have fields, it is
\* replaced by one column per fragment, named by the fragments in order,
\* each holding the corresponding field of every row.
C9_AsClaimed ==
    Parsed =>
        LET df == tout.before
            i == FirstTabColumn(df)
        IN (i # 0 /\ Len(Split(df.columns[i], US)) = FieldCount(df, i)) =>
              /\ Len(tout.after.df.columns) = Len(df.columns) - 1 + FieldCount(df, i)
              /\ ExpandedAs(tout.after.df, Split(df.columns[i], US), df.values[i])

\* C9 (amended): the column is the first one other than source_id, and the
\* names are the fragments with blank fragments replaced by col_<position>
\* and repeated names given a numeric suffix.
C9_Expansion ==
    Parsed =>
        LET df == tout.before
            i == FirstQualifyingColumn(df)
        IN (i # 0 /\ Len(Split(df.columns[i], US)) = FieldCount(df, i)) =>
              /\ Len(tout.after.df.columns) = Len(df.columns) - 1 + FieldCount(df, i)
              /\ ExpandedAs(tout.after.df, FragmentNames(Split(df.columns[i], US)),
                            df.values[i])

\* state_year_rain with "MH<TAB>2020<TAB>850" became state, year, rain.
C9_Witness ==
    /\ Parsed
    /\ tout.before.columns = << <<"state", US, "year", US, "rain">> >>
    /\ tout.before.nrows = 1
    /\ tout.after.df.columns = << <<"state">>, <<"year">>, <<"rain">> >>
    /\ tout.after.df.values = << <<Str(<<"MH">>)>>, <<Str(<<"2020">>)>>, <<Str(<<"850">>)>> >>

\* C10: read_and_cache expands at most one packed column, the first
\* qualifying one in column order; every other column, and so every later
\* column whose values contain tabs, is in the returned table as it was.
C10_AtMostOneExpansion ==
    (tout.calls = 1 /\ ret.kind = "df") =>
        LET df == tout.before
            i == FirstQualifyingColumn(df)
            labelled == \E c \in 1..Len(df.columns) : df.columns[c] = SOURCE_ID
            grown == IF i = 0 THEN 0 ELSE FieldCount(df, i) - 1
        IN /\ Len(ret.df.columns) = Len(df.columns) + grown + (IF labelled THEN 0 ELSE 1)
           /\ \A j \in 1..Len(df.columns) :
                 j # i =>
                    \E q \in 1..Len(ret.df.columns) :
                        /\ ret.df.columns[q] = df.columns[j]
                        /\ df.columns[j] # SOURCE_ID => ret.df.values[q] = df.values[j]
           /\ i # 0 =>
                 ~\E q \in 1..Len(ret.df.columns) :
                      ret.df.columns[q] = df.columns[i] /\ ret.df.values[q] = df.values[i]

\* Two packed columns: the first was expanded, the second is still packed.
C10_Witness ==
    /\ tout.calls = 1
    /\ ret.kind = "df"
    /\ tout.before.columns = << <<"a", US, "b">>, <<"state", US, "year", US, "rain">> >>
    /\ tout.before.nrows = 1
    /\ TabColumn(tout.before, 1)
    /\ TabColumn(tout.before, 2)
    /\ ret.df.columns = << <<"a">>, <<"b">>, <<"state", US, "year", US, "rain">>, SOURCE_ID >>
    /\ ret.df.values[3] = tout.before.values[2]

\* Format names get_adapter has an adapter for, among those of the model.
SupportedNames == {"json", "JSON", "api", "csv", "xlsx", "xls", "excel"}

\* C11: a _fetch_raw_data call for a dataset whose format name is outside
\* the supported set ends at adapter selection with the unsupported-format
\* error: no page request is issued, no cache entry is read or written.
C11_UnsupportedFormat ==
    [][ (/\ pc = "idle"
         /\ hist'.via = "app"
         /\ ret'.rid # NoRid
         /\ hist'.format \notin SupportedNames) =>
            /\ hist'.end = "unsupported"
            /\ pc' = "idle"
            /\ hist'.requests = <<>>
            /\ ret'.kind = "none"
            /\ ~ret'.hit /\ ~ret'.wrote
            /\ cache' = cache /\ writes' = writes /\ lastHit' = lastHit ]_vars

\* An unsupported format for a resource that has a cache entry.
C11_Witness ==
    /\ hist.end = "unsupported"
    /\ hist.format = "pdf"
    /\ ret.rid = "r1"
    /\ cache["r1"] # NoFile
    /\ hist.requests = <<>>

\* --- discovery, as the claims word it
\* The identifier of a search record: the first non-empty field among
\* index_name, resource_id, id, org_id; "" when there is none.
FirstPresent(ds) ==
    LET fields == <<ds.index_name, ds.resource_id, ds.id, ds.org_id>>
        present == {i \in 1..4 : fields[i] # ""}
    IN IF present = {} THEN "" ELSE fields[CHOOSE i \in present : \A j \in present : i <= j]

\* Position of the first record of found that carries the identifier.
FirstOccurrence(found, id) ==
    CHOOSE i \in 1..Len(found) :
        FirstPresent(found[i]) = id /\ \A j \in 1..(i - 1) : FirstPresent(found[j]) # id

\* Number of distinct identifiers among the first n records of found.
DistinctIds(found, n) == Cardinality({FirstPresent(found[i]) : i \in 1..n} \ {""})

\* The vocabulary in search order.
Vocabulary == Take(SearchTermsOf("climate"), NumTerms) \o Take(SearchTermsOf("agriculture"), NumTerms)

\* C12: bootstrap searches once per vocabulary term, in order; per category
\* every registered descriptor carries the first present identifier field
\* of a search record, no identifier twice, the descriptor built from the
\* first record with that identifier in search order, taken among the
\* first 10 (here BootstrapCap) distinct identifiers; every descriptor
\* returned is in the catalog.
C12_Bootstrap ==
    dlog.op = "bootstrap" =>
        /\ dlog.searches = Take(Vocabulary, Len(dlog.searches))
        /\ dret.kind = "discovered" => dlog.searches = Vocabulary
        /\ \A c \in {"climate", "agriculture"} :
              LET found == dlog.found[c]
                  rows == dlog.discovered[c]
              IN /\ Len(rows) <= BootstrapCap
                 /\ \A i, j \in 1..Len(rows) : rows[i].dataset_id = rows[j].dataset_id => i = j
                 /\ \A i \in 1..Len(rows) :
                       /\ rows[i].dataset_id # ""
                       /\ rows[i].category = c
                       /\ \E p \in 1..Len(found) : FirstPresent(found[p]) = rows[i].dataset_id
                       /\ rows[i].name = found[FirstOccurrence(found, rows[i].dataset_id)].title
                       /\ DistinctIds(found, FirstOccurrence(found, rows[i].dataset_id))
                             <= BootstrapCap
                       /\ InCatalog(catalog, rows[i].dataset_id)

\* Three identifiers were found for climate, d1 first under index_name and
\* again under resource_id; the first two were registered, d1 from its
\* first record.
C12_Witness ==
    /\ dlog.op = "bootstrap"
    /\ dret.kind = "discovered"
    /\ dlog.found["climate"] = <<DsA, DsB, DsC, DsE, DsF>>
    /\ Len(dlog.discovered["climate"]) = 2
    /\ dlog.discovered["climate"][1] = Row("d1", "A", "json", "climate")
    /\ dlog.discovered["climate"][2].dataset_id = "d2"

\* The terms of the two fixed lists, and those that occur in a question
\* whatever its letter case.
FallbackTerms ==
    {<<"rainfall">>, <<"temperature">>, <<"weather">>, <<"monsoon">>, <<"precipitation">>,
     <<"climate">>, <<"crop">>, <<"agriculture">>, <<"farming">>, <<"yield">>,
     <<"production">>, <<"harvest">>}
Occurring(question) ==
    {t \in FallbackTerms : \E i \in 1..Len(question) : <<LowerAtom(question[i])>> = t}

\* The question call has got its keywords.
HasKeywords == dlog.op = "question" /\ dlog.keyword_calls = 1

\* C13: discover_for_question makes one keyword call, searches with at most
\* 4 keywords, once per keyword and in order; when the keyword call failed
\* the keywords are terms of the two fixed lists that occur in the question,
\* as many as occur up to 4, or rainfall and crop production when none
\* occurs, and so never an empty list.
C13_Keywords ==
    dlog.op = "question" =>
        /\ dlog.keyword_calls <= 1
        /\ ~HasKeywords => dlog.searches = <<>>
        /\ HasKeywords =>
              /\ Len(dlog.keywords) <= 4
              /\ dlog.searches = Take(dlog.keywords, Len(dlog.searches))
              /\ dret.kind = "ids" => dlog.searches = dlog.keywords
        /\ (HasKeywords /\ "keywords" \in dlog.failed) =>
              /\ dlog.keywords # <<>>
              /\ IF Occurring(dlog.question) = {}
                 THEN dlog.keywords = << <<"rainfall">>, <<"crop", " ", "production">> >>
                 ELSE /\ \A i \in 1..Len(dlog.keywords) : dlog.keywords[i] \in Occurring(dlog.question)
                      /\ \A i, j \in 1..Len(dlog.keywords) :
                            dlog.keywords[i] = dlog.keywords[j] => i = j
                      /\ Len(dlog.keywords) = Min(4, Cardinality(Occurring(dlog.question)))

\* The keyword call failed for a question in which six terms occur: four
\* keywords, four searches, and the call returned.
C13_Witness ==
    /\ dlog.op = "question"
    /\ dret.kind = "ids"
    /\ "keywords" \in dlog.failed
    /\ Cardinality(Occurring(dlog.question)) = 6
    /\ dlog.keywords = << <<"rainfall">>, <<"temperature">>, <<"weather">>, <<"monsoon">> >>
    /\ Len(dlog.searches) = 4

\* Identifiers of the rows of a table, and the row of an identifier.
IdsOf(table) == {table[i].dataset_id : i \in 1..Len(table)}
RowOf(table, id) == table[CHOOSE i \in 1..Len(table) : table[i].dataset_id = id]

\* The candidates the loop of discover_for_question has dealt with.
Handled == dlog.skipped \o dlog.classified

\* C14 (as claimed): a candidate is registered only when the response to
\* its classification call is exactly climate or agriculture.
C14_AsClaimed ==
    dlog.op = "question" =>
        \A i \in 1..Len(dlog.classified) :
            dlog.classified[i] \in IdsOf(dlog.registered) =>
                /\ dlog.answers[i].ok
                /\ dlog.answers[i].text \in {<<"climate">>, <<"agriculture">>}

\* C14 (amended): a candidate whose identifier the catalog holds is not
\* classified and its entry stays as it was; every other candidate gets
\* exactly one classification call and is registered only when the response,
\* trimmed and lower-cased, is climate or agriculture, under that category;
\* otherwise the catalog gets no entry for it.
C14_Classification ==
    dlog.op = "question" =>
        /\ \A i, j \in 1..Len(Handled) : Handled[i] = Handled[j] => i = j
        /\ \A i \in 1..Len(dlog.skipped) : dlog.skipped[i] \in IdsOf(dlog.before)
        /\ \A i \in 1..Len(dlog.classified) : dlog.classified[i] \notin IdsOf(dlog.before)
        /\ Len(dlog.answers) = Len(dlog.classified)
        /\ catalog = dlog.before \o dlog.registered
        /\ \A i \in 1..Len(dlog.classified) :
              LET id == dlog.classified[i]
                  said == IF dlog.answers[i].ok THEN Lower(Strip(dlog.answers[i].text)) ELSE <<>>
              IN IF id \in IdsOf(dlog.registered)
                 THEN /\ said \in {<<"climate">>, <<"agriculture">>}
                      /\ <<RowOf(catalog, id).category>> = said
                 ELSE id \notin IdsOf(catalog)
        /\ dret.kind = "ids" =>
              {FirstPresent(dlog.candidates[i]) : i \in 1..Len(dlog.candidates)}
                 = {Handled[i] : i \in 1..Len(Handled)}

\* d1 was in the catalog and was skipped; d2 was answered " Climate " and
\* registered as climate; d3 was answered and dropped.
C14_Witness ==
    /\ dlog.op = "question"
    /\ dret.kind = "ids"
    /\ dlog.skipped = <<"d1">>
    /\ RowOf(catalog, "d1") = Row("d1", "seed", "json", "climate")
    /\ dlog.classified = <<"d2", "d3">>
    /\ dlog.answers[1] = LLMResponse(TRUE, <<" ", "Climate", " ">>)
    /\ dlog.answers[2] = LLMResponse(TRUE, <<"other">>)
    /\ IdsOf(dlog.registered) = {"d2"}
    /\ "d3" \notin IdsOf(catalog)

\* No classification call of the running question call was answered with
\* one of the two categories.
NothingClassified ==
    \A i \in 1..Len(dlog.answers) :
        ~(dlog.answers[i].ok
          /\ Lower(Strip(dlog.answers[i].text)) \in {<<"climate">>, <<"agriculture">>})

\* C15: the catalog never holds two entries with one identifier, and a
\* discover_for_question call in which no candidate is classified as
\* climate or agriculture leaves the catalog as it found it.
C15_OneEntryPerIdentifier ==
    /\ \A i, j \in 1..Len(catalog) : catalog[i].dataset_id = catalog[j].dataset_id => i = j
    /\ (dlog.op = "question" /\ NothingClassified) => catalog = dlog.before

\* A second call that found candidates, all of them registered by then or
\* dropped again, returned with the catalog as the first call left it.
C15_Witness ==
    /\ dlog.op = "question"
    /\ dret.calls = 2
    /\ dret.kind = "ids"
    /\ "d2" \in IdsOf(dlog.before)
    /\ dlog.skipped = <<"d1", "d2">>
    /\ dlog.classified = <<"d3">>
    /\ catalog = dlog.before

\* Identifiers, as text, of the climate and agriculture entries of a table.
TrackedIds(table) ==
    {<<table[i].dataset_id>> : i \in {j \in 1..Len(table) :
                                        table[j].category \in {"climate", "agriculture"}}}

\* discover_for_question has returned a list.
ReturnedIds == dlog.op = "question" /\ dret.kind = "ids"

\* C16 (as claimed): the response none, as written, yields the empty list.
C16_AsClaimed ==
    (ReturnedIds /\ dlog.answer.ok /\ Strip(dlog.answer.text) = <<"none">>) => dret.ids = <<>>

\* C16 (amended): the relevance step makes one model call, over the climate
\* and agriculture entries the catalog holds at that time; the response
\* NONE, in upper case, yields the empty list; when the call fails the
\* result is every identifier of those entries, each once.
C16_Relevance ==
    dlog.op = "question" =>
        /\ dlog.relevance_calls = (IF dret.kind = "ids" THEN 1 ELSE 0)
        /\ dret.kind = "ids" =>
              /\ {<<dlog.listed[i].dataset_id>> : i \in 1..Len(dlog.listed)} = TrackedIds(catalog)
              /\ TrackedIds(dlog.before) \subseteq TrackedIds(catalog)
              /\ \A i \in 1..Len(dlog.registered) :
                    <<dlog.registered[i].dataset_id>> \in TrackedIds(catalog)
              /\ (dlog.answer.ok /\ Strip(dlog.answer.text) = <<"NONE">>) => dret.ids = <<>>
              /\ ~dlog.answer.ok =>
                    /\ {dret.ids[i] : i \in 1..Len(dret.ids)} = TrackedIds(catalog)
                    /\ Len(dret.ids) = Cardinality(TrackedIds(catalog))

\* The relevance call failed: the seeded climate entry and the entry added
\* in this call are returned, the entry of another category is not.
C16_Witness ==
    /\ ReturnedIds
    /\ ~dlog.answer.ok
    /\ IdsOf(dlog.before) = {"d1", "s9"}
    /\ IdsOf(dlog.registered) = {"d2"}
    /\ dret.ids = << <<"d1">>, <<"d2">> >>

\* The call has returned, it made classification calls and every one of them
\* failed, and the catalog it started from held climate or agriculture entries.
ClassificationBroken ==
    /\ ReturnedIds
    /\ dlog.answers # <<>>
    /\ \A i \in 1..Len(dlog.answers) : ~dlog.answers[i].ok
    /\ TrackedIds(dlog.before) # {}

\* C17 (as claimed): with the classification call failing for every
\* candidate and climate or agriculture entries in the catalog, the list
\* returned is non-empty and drawn from those entries.
C17_AsClaimed ==
    ClassificationBroken =>
        /\ dret.ids # <<>>
        /\ \A i \in 1..Len(dret.ids) : dret.ids[i] \in TrackedIds(dlog.before)

\* C17 (amended): so it is when the relevance call fails as well; the list
\* is then every identifier of those entries.
C17_Fallback ==
    (ClassificationBroken /\ ~dlog.answer.ok) =>
        /\ dret.ids # <<>>
        /\ {dret.ids[i] : i \in 1..Len(dret.ids)} = TrackedIds(dlog.before)
        /\ catalog = dlog.before

\* "Rainfall in Odisha": two candidates, both classification calls failed,
\* the relevance call failed, the seeded climate entry is returned.
C17_Witness ==
    /\ ClassificationBroken
    /\ ~dlog.answer.ok
    /\ dlog.question = <<"Rainfall", " ", "in", " ", "Odisha">>
    /\ Len(dlog.answers) = 2
    /\ dret.ids = << <<"d1">> >>

\* C18: every identifier the call returns is the identifier of a climate or
\* agriculture entry of the catalog as it is when the call returns.
C18_OnlyCatalogIds ==
    ReturnedIds =>
        \A i \in 1..Len(dret.ids) : dret.ids[i] \in TrackedIds(catalog)

\* C19: whichever of the keyword, classification and relevance calls and of
\* the catalog searches fail, a discover_for_question call does not end
\* with an exception (it is running or has returned its identifier list).
C19_NeverRaises ==
    dlog.op = "question" => dret.kind # "raised"

\* The fetches of the call that returned a table with data.
WithDataCount ==
    Cardinality({i \in 1..Len(alog.fetched) :
                    /\ alog.fetched[i].data.type = "DataFrame"
                    /\ ~IsEmpty(alog.fetched[i].data.df)})

\* C20: a failure of the fetch, the normalization or the filter of one
\* dataset does not abort answer_question: the call raises only when
\* discovery raised or the final model call failed, and the final model
\* call is sent a summary of every dataset that was fetched with data.
C20_LocalFailuresAreContained ==
    /\ (aret.kind = "raised" /\ dret.kind # "raised") => alog.final_calls = 1
    /\ alog.final_calls = 1 => Len(alog.sent) = WithDataCount

\* The datasets with data that had more rows than the filter threshold.
LargeCount ==
    Cardinality({i \in 1..Len(alog.fetched) :
                    /\ alog.fetched[i].data.type = "DataFrame"
                    /\ ~IsEmpty(alog.fetched[i].data.df)
                    /\ alog.fetched[i].data.df.nrows > FilterThreshold})

\* C21: the final model call of a question is made at most once; when it
\* is made every dataset with data has been summarized and every large one
\* filtered; a narrative is returned only from that call, and when the
\* call fails answer_question raises without a second call.
C21_FinalCallOnce ==
    /\ alog.final_calls <= 1
    /\ apc = "final" =>
          /\ alog.final_calls = 0
          /\ Len(aloc.dataset_summaries) = WithDataCount
          /\ Len(alog.filtered) = LargeCount
    /\ alog.final_calls = 1 =>
          /\ apc = "idle"
          /\ Len(alog.sent) = WithDataCount
          /\ Len(alog.filtered) = LargeCount
          /\ aret.kind = IF alog.final.ok THEN "answer" ELSE "raised"
    /\ aret.kind = "answer" => alog.final_calls = 1

\* Two datasets with data, one of them filtered, and the final call failed:
\* the question raised after that one call.
C21_Witness ==
    /\ alog.final_calls = 1
    /\ ~alog.final.ok
    /\ aret.kind = "raised"
    /\ Len(alog.sent) = 2
    /\ Len(alog.filter_calls) = 1

\* Answers that ask for no filter, and answers Python cannot evaluate.
NoFilterTexts == { <<"df">>, <<"df", " ", "# no filter">>, <<FENCE, "df", FENCE>> }
UnevaluableTexts == { <<"df[">>, <<"no filter">> }

\* C22: the filter step calls the model only when auto_filter is set and
\* the table has more than 100 rows; after a failed call, an answer that
\* asks for no filter or an expression that fails to evaluate, the data is
\* the original table.
C22_FilterFallback ==
    pout.stage # "input" =>
        /\ pout.called <=> /\ pin.auto_filter
                           /\ pin.data.type = "DataFrame"
                           /\ pin.data.df.nrows > FilterThreshold
        /\ ~pout.called => pout.value = pin.data
        /\ (pout.called /\ (\/ ~pin.response.ok
                            \/ pin.response.text \in NoFilterTexts
                            \/ pin.response.text \in UnevaluableTexts))
              => pout.value = pin.data

\* A table of 101 rows, auto_filter set, and an answer that does not parse:
\* the table is kept as it was.
C22_Witness ==
    /\ pout.stage = "filtered"
    /\ pout.called
    /\ pin.data.df.nrows = FilterThreshold + 1
    /\ pin.response.text = <<"df[">>
    /\ pout.value = pin.data

\* The preparer has summarized a table of more rows than max_rows.
Sampled ==
    /\ pout.stage = "summarized"
    /\ pout.value.type = "DataFrame"
    /\ pout.value.df.nrows > pin.max_rows

\* The position in a table of n rows of the i-th row of the sample the
\* claim describes: the head, the centered block, the tail.
ExpectedRow(n, max_rows, i) ==
    LET head == (4 * max_rows) \div 10
        middle == (2 * max_rows) \div 10
    IN IF i <= head THEN i
       ELSE IF i <= head + middle THEN (n - middle) \div 2 + (i - head)
       ELSE n - max_rows + i

\* C23: of a table of n > max_rows >= 0 rows the sample has exactly
\* max_rows rows: the first floor(0.4 max_rows), the floor(0.2 max_rows)
\* from index (n - floor(0.2 max_rows)) div 2 on and the last ones, no row
\* twice and in the table's order; of 10000 rows with max_rows 1000 these
\* are the first 400, rows 4900..5099 and the last 400.
C23_SampleSplit ==
    /\ Sampled =>
          LET df == pout.value.df
              sample == pout.summary.sample
          IN /\ sample.nrows = pin.max_rows
             /\ sample.columns = df.columns
             /\ \A i \in 1..sample.nrows :
                   sample.values[1][i] = df.values[1][ExpectedRow(df.nrows, pin.max_rows, i)]
             /\ \A i \in 1..(sample.nrows - 1) :
                   ExpectedRow(df.nrows, pin.max_rows, i) < ExpectedRow(df.nrows, pin.max_rows, i + 1)
    /\ pout.stage = "summarized" =>
          SmartSampleRows(10000, 1000) = Range(1, 400) \o Range(4901, 5100) \o Range(9601, 10000)

\* Twelve rows and max_rows 10: rows 1-4, 6-7 and 9-12.
C23_Witness ==
    /\ Sampled
    /\ pout.value.df.nrows = 12
    /\ pin.max_rows = 10
    /\ pout.summary.sample.values[1]
          = <<Num(1), Num(2), Num(3), Num(4), Num(6), Num(7), Num(9), Num(10), Num(11), Num(12)>>

\* C24: when the table that is summarized has at most max_rows rows, the
\* sample section of the summary shows every row of it, in the table's
\* order.
C24_FullTableShown ==
    (/\ pout.stage = "summarized"
     /\ pout.value.type = "DataFrame"
     /\ ~IsEmpty(pout.value.df)
     /\ pout.value.df.nrows <= pin.max_rows)
        => pout.summary.shown = pout.value.df

\* The rows of a table, each the tuple of its cells.
RowsOf(df) == {[c \in 1..Len(df.columns) |-> df.values[c][r]] : r \in 1..df.nrows}

\* C30: what the filter step leaves is the original table or a table with
\* the same columns whose rows are rows of the original table, whatever
\* the model answered.
C30_FilterReturnsSubset ==
    (pout.stage # "input" /\ pout.called) =>
        \/ pout.value = pin.data
        \/ /\ pout.value.type = "DataFrame"
           /\ pout.value.df.columns = pin.data.df.columns
           /\ RowsOf(pout.value.df) \subseteq RowsOf(pin.data.df)


\* C25: a step of a bootstrap or of a question discovery leaves every
\* stored entry in the catalog with the identifier, the category and the
\* format it had.
C25_StoredEntriesKeepCategoryAndFormat ==
    [][\A i \in 1..Len(catalog) :
          \E j \in 1..Len(catalog') :
             /\ catalog'[j].dataset_id = catalog[i].dataset_id
             /\ catalog'[j].category = catalog[i].category
             /\ catalog'[j].format = catalog[i].format]_vars


\* C26: when the packed column has as many name fragments as fields, no two
\* of the columns it is expanded into share a name.
C26_ExpandedNamesDistinct ==
    Parsed =>
        LET df == tout.before
            i == FirstQualifyingColumn(df)
        IN (i # 0 /\ Len(Split(df.columns[i], US)) = FieldCount(df, i)) =>
              NoDuplicates(SubSeq(tout.after.df.columns, 1, FieldCount(df, i)))


\* The packed column of the first payload has a number of name fragments
\* that differs from its number of fields.
CountsDiffer ==
    /\ Parsed
    /\ FirstQualifyingColumn(tout.before) # 0
    /\ Len(Split(tout.before.columns[FirstQualifyingColumn(tout.before)], US))
          # FieldCount(tout.before, FirstQualifyingColumn(tout.before))

C28_AsClaimed ==
    pc = "fetch_resource" =>
        /\ \A i \in 1..Len(call.waits) : 2 <= call.waits[i] /\ call.waits[i] <= 10
        /\ \A i \in 2..Len(call.waits) : call.waits[i] > call.waits[i - 1]

\* C28 (amended): the delay before clamping doubles from one attempt to the
\* next, starting at 1 or 2, and each wait is that delay raised to at least
\* 2 and cut to at most 10: the waits never shrink, but the two waits of a
\* page fetch can both be 2.
C28_Backoff ==
    pc = "fetch_resource" =>
        /\ Len(call.waits) = call.attempt
        /\ \A i \in 1..Len(call.waits) : 2 <= call.waits[i] /\ call.waits[i] <= 10
        /\ \A i \in 2..Len(call.waits) : call.waits[i] >= call.waits[i - 1]
        /\ \E base \in {1, 2} :
              \A i \in 1..Len(call.waits) :
                 LET delay == base * 2 ^ (i - 1)
                 IN call.waits[i] = IF delay < 2 THEN 2 ELSE IF delay > 10 THEN 10 ELSE delay

\* Two attempts of one page failed and both waits were 2.
C28_Witness ==
    /\ pc = "fetch_resource"
    /\ call.attempt = 2
    /\ call.waits = <<2, 2>>


\* The caller went past the existence test without finding a file, wrote,
\* and returned a table.
WroteOnMiss(c) ==
    /\ callers[c].pc = "idle"
    /\ callers[c].ret.kind = "df"
    /\ callers[c].ret.path = "miss"
    /\ \E i \in 1..Len(writers) : writers[i] = c

\* C29: nothing keeps two callers from populating one cache entry. A caller
\* that found no file returns the table built from its own records, whatever
\* the cache holds by then; every caller that found no file writes, once;
\* and a write that ended without overlapping another leaves its own table
\* at the path, replacing what an earlier write put there.
C29_UnguardedPopulation ==
    /\ \A c \in CallerIds :
          (callers[c].ret.kind = "df" /\ callers[c].ret.path = "miss") =>
              /\ callers[c].ret.df = callers[c].df
              /\ JSONBuild(AdapterRid, callers[c].data, callers[c].emptyOk) = Ok(callers[c].ret.df)
              /\ \E i \in 1..Len(writers) : writers[i] = c
    /\ writes[AdapterRid] = Len(writers)
    /\ \A i, j \in 1..Len(writers) : writers[i] = writers[j] => i = j
    /\ (writers # <<>> /\ Writing = {} /\ ~callers[writers[Len(writers)]].clashed) =>
          cache[AdapterRid] = ToParquet(callers[writers[Len(writers)]].df).df

\* Both callers found no file and both wrote, one after the other; the
\* cache holds the table of the second and the two returned different tables.
C29_Witness ==
    /\ WroteOnMiss("c1") /\ WroteOnMiss("c2")
    /\ writers = <<"c1", "c2">>
    /\ ~callers["c1"].clashed /\ ~callers["c2"].clashed
    /\ callers["c1"].ret.df # callers["c2"].ret.df
    /\ cache[AdapterRid] = ToParquet(callers["c2"].df).df
    /\ cache[AdapterRid] # ToParquet(callers["c1"].df).df
    /\ writes[AdapterRid] = 2

====
